---- MODULE Spec2Model ----
(***************************************************************************)
(* Model of cloudctl's "sync" command (cmd/sync.go): the normalizer        *)
(* buildIncomingKubeconfig, the reconciliation engine mergeKubeconfig and  *)
(* its helpers, and the load / merge / write sequence of runSync.          *)
(*                                                                         *)
(* Go strings and byte slices that the code takes apart or puts together   *)
(* (names, auth-provider config values, certificate bytes) are sequences   *)
(* of tokens, so that prefixing, prefix tests, trimming and concatenation  *)
(* are computed, not assumed.  Opaque values that are only compared        *)
(* (server URL, namespace, provider name) are plain strings.               *)
(* Go maps are functions; a nil map and an empty map are the same value.   *)
(*                                                                         *)
(* Spec is the sync command run up to MaxSyncs times.  SpecAuth, SpecBuild *)
(* and SpecKubelogin are single calls of authInfoEqual and                 *)
(* generateAuthInfoKey, of buildIncomingKubeconfig and of                  *)
(* buildKubeloginArgs on arguments drawn from finite sets.  SpecEndpoint   *)
(* is one run on a file that holds a managed cluster, SpecRun one run of   *)
(* runSync taken statement by statement.                                   *)
(***************************************************************************)
EXTENDS Naturals, Sequences, FiniteSets, TLC

\* ------------------------------------------------------------------ maps

EmptyMap == [k \in {} |-> <<>>]

Put(m, k, v) == [x \in (DOMAIN m) \cup {k} |-> IF x = k THEN v ELSE m[x]]

\* m[k] of a Go map[string]string: the empty string when the key is absent.
Get(m, k) == IF k \in DOMAIN m THEN m[k] ELSE <<>>

\* All orders in which a Go "range" may visit the keys of a map.
Orders(S) ==
  {o \in [1..Cardinality(S) -> S] : \A i, j \in 1..Cardinality(S) : o[i] = o[j] => i = j}

\* One fixed order, for loops whose iterations touch disjoint keys.
SomeOrder(S) == CHOOSE o \in Orders(S) : TRUE

\* ------------------------------------------------------------------ names

prefix == <<"cloudctl">>

HasPrefix(s, p) == Len(s) >= Len(p) /\ SubSeq(s, 1, Len(p)) = p

TrimPrefix(s, p) == IF HasPrefix(s, p) THEN SubSeq(s, Len(p) + 1, Len(s)) ELSE s

managedNameFunc(name) == prefix \o <<":">> \o name

unmanagedNameFunc(managedName) == TrimPrefix(managedName, prefix \o <<":">>)

isManaged(name) == HasPrefix(name, prefix \o <<":">>)

\* ------------------------------------------------------------------ hashing

\* hex(sha256(data)): a deterministic function of the bytes written, taken to
\* be collision free on the values of the model.
Sha256Hex(data) == <<"sha256(">> \o data \o <<")">>

\* hex(sha256(data))[:16], the shortened digest used in managed user names.
Sha256Hex16(data) == <<"sha256[:16](">> \o data \o <<")">>

\* ------------------------------------------------------------------ auth infos

NoProvider == [nil |-> TRUE, Name |-> "", Config |-> EmptyMap]

Provider(name, config) == [nil |-> FALSE, Name |-> name, Config |-> config]

filterAuthProviderConfig(config) ==
  [k \in (DOMAIN config) \ {"id-token", "refresh-token"} |-> config[k]]

\* authInfoEqual without the comparison of ClientKeyData.
authInfoEqual_NoKeyData(a, b) ==
  IF a.ClientCertificateData # b.ClientCertificateData THEN FALSE
  ELSE IF a.AuthProvider.nil # b.AuthProvider.nil THEN FALSE
  ELSE IF ~a.AuthProvider.nil /\ ~b.AuthProvider.nil
       THEN IF a.AuthProvider.Name # b.AuthProvider.Name THEN FALSE
            ELSE filterAuthProviderConfig(a.AuthProvider.Config)
                   = filterAuthProviderConfig(b.AuthProvider.Config)
       ELSE TRUE

authInfoEqual(a, b) ==
  IF a.ClientCertificateData # b.ClientCertificateData THEN FALSE
  ELSE IF a.ClientKeyData # b.ClientKeyData THEN FALSE
  ELSE IF a.AuthProvider.nil # b.AuthProvider.nil THEN FALSE
  ELSE IF ~a.AuthProvider.nil /\ ~b.AuthProvider.nil
       THEN IF a.AuthProvider.Name # b.AuthProvider.Name THEN FALSE
            ELSE filterAuthProviderConfig(a.AuthProvider.Config)
                   = filterAuthProviderConfig(b.AuthProvider.Config)
       ELSE TRUE

\* generateAuthInfoKey hashing the certificate without the key bytes.
generateAuthInfoKey_CertOnly(authInfo) ==
  IF authInfo.AuthProvider.nil
  THEN <<"cert:">> \o Sha256Hex(authInfo.ClientCertificateData)
  ELSE <<"client-id:">> \o Get(authInfo.AuthProvider.Config, "client-id")
       \o <<";client-secret:">> \o Get(authInfo.AuthProvider.Config, "client-secret")
       \o <<";auth-request-extra-params:">>
       \o Get(authInfo.AuthProvider.Config, "auth-request-extra-params")
       \o <<";extra-scopes:">> \o Get(authInfo.AuthProvider.Config, "extra-scopes")

\* generateAuthInfoKey with the id-token written into the key.
generateAuthInfoKey_WithIdToken(authInfo) ==
  IF authInfo.AuthProvider.nil
  THEN <<"cert:">> \o Sha256Hex(authInfo.ClientCertificateData \o authInfo.ClientKeyData)
  ELSE <<"client-id:">> \o Get(authInfo.AuthProvider.Config, "client-id")
       \o <<";client-secret:">> \o Get(authInfo.AuthProvider.Config, "client-secret")
       \o <<";auth-request-extra-params:">>
       \o Get(authInfo.AuthProvider.Config, "auth-request-extra-params")
       \o <<";extra-scopes:">> \o Get(authInfo.AuthProvider.Config, "extra-scopes")
       \o <<";id-token:">> \o Get(authInfo.AuthProvider.Config, "id-token")

generateAuthInfoKey(authInfo) ==
  IF authInfo.AuthProvider.nil
  THEN <<"cert:">> \o Sha256Hex(authInfo.ClientCertificateData \o authInfo.ClientKeyData)
  ELSE <<"client-id:">> \o Get(authInfo.AuthProvider.Config, "client-id")
       \o <<";client-secret:">> \o Get(authInfo.AuthProvider.Config, "client-secret")
       \o <<";auth-request-extra-params:">>
       \o Get(authInfo.AuthProvider.Config, "auth-request-extra-params")
       \o <<";extra-scopes:">> \o Get(authInfo.AuthProvider.Config, "extra-scopes")

\* fmt.Sprintf("%s:auth-%s", prefix, hashString) of mergeKubeconfig.
dedupAuthName(uniqueKey) == prefix \o <<":">> \o <<"auth-">> \o Sha256Hex16(uniqueKey)

\* mergeAuthInfo without the copy of id-token and refresh-token.
mergeAuthInfo_DropsTokens(serverAuth, localAuth) == serverAuth

mergeAuthInfo(serverAuth, localAuth) ==
  IF ~localAuth.AuthProvider.nil /\ ~serverAuth.AuthProvider.nil
  THEN LET c0 == serverAuth.AuthProvider.Config
           lc == localAuth.AuthProvider.Config
           c1 == IF "id-token" \in DOMAIN lc THEN Put(c0, "id-token", lc["id-token"]) ELSE c0
           c2 == IF "refresh-token" \in DOMAIN lc
                 THEN Put(c1, "refresh-token", lc["refresh-token"]) ELSE c1
       IN  [serverAuth EXCEPT !.AuthProvider.Config = c2]
  ELSE serverAuth

\* ------------------------------------------------------------------ clusters

IsSpace(t) == t = " "

RECURSIVE TrimLeft(_)
TrimLeft(s) == IF s # <<>> /\ IsSpace(Head(s)) THEN TrimLeft(Tail(s)) ELSE s

RECURSIVE TrimRight(_)
TrimRight(s) ==
  IF s # <<>> /\ IsSpace(s[Len(s)]) THEN TrimRight(SubSeq(s, 1, Len(s) - 1)) ELSE s

TrimSpace(s) == TrimRight(TrimLeft(s))

extensionRaw(m, name) == IF name \in DOMAIN m THEN TrimSpace(m[name]) ELSE <<>>

labelsExtensionEqual(a, b) == extensionRaw(a, "labels") = extensionRaw(b, "labels")

\* ------------------------------------------------------------------ mergeKubeconfig

\* The cluster loop storing under the remote name.
MergeClusterStep_Unprefixed(clusters, serverName, serverCluster) ==
  Put(clusters, serverName, serverCluster)

\* The cluster loop overwriting the local entry whether or not anything changed.
MergeClusterStep_AlwaysOverwrites(clusters, serverName, serverCluster) ==
  Put(clusters, managedNameFunc(serverName), serverCluster)

\* "Merge Clusters": one iteration of the loop over serverConfig.Clusters.
MergeClusterStep(clusters, serverName, serverCluster) ==
  LET managedName == managedNameFunc(serverName) IN
  IF managedName \notin DOMAIN clusters
  THEN Put(clusters, managedName, serverCluster)
  ELSE LET localCluster == clusters[managedName] IN
       IF \/ localCluster.Server # serverCluster.Server
          \/ localCluster.CertificateAuthorityData # serverCluster.CertificateAuthorityData
          \/ ~labelsExtensionEqual(localCluster.Extensions, serverCluster.Extensions)
       THEN Put(clusters, managedName, serverCluster)
       ELSE clusters

RECURSIVE MergeClusters(_, _, _, _)
MergeClusters(order, i, clusters, serverClusters) ==
  IF i > Len(order) THEN clusters
  ELSE MergeClusters(order, i + 1,
                     MergeClusterStep(clusters, order[i], serverClusters[order[i]]),
                     serverClusters)

\* The credential loop without the authInfoEqual test of the non-dedup mode.
MergeAuthInfoStep_AlwaysMerges(st, serverName, serverAuth, dedup) ==
  LET managedAuthName == IF dedup THEN dedupAuthName(generateAuthInfoKey(serverAuth))
                         ELSE managedNameFunc(serverName)
  IN  [AuthInfos |-> Put(st.AuthInfos, managedAuthName,
                         IF managedAuthName \in DOMAIN st.AuthInfos
                         THEN mergeAuthInfo(serverAuth, st.AuthInfos[managedAuthName])
                         ELSE serverAuth),
       authInfoMap |-> IF dedup
                       THEN Put(st.authInfoMap, generateAuthInfoKey(serverAuth),
                                managedAuthName)
                       ELSE st.authInfoMap]

\* "Merge AuthInfos": one iteration of the loop over serverConfig.AuthInfos.
\* st carries localConfig.AuthInfos and authInfoMap.
MergeAuthInfoStep(st, serverName, serverAuth, dedup) ==
  IF dedup
  THEN LET uniqueKey == generateAuthInfoKey(serverAuth)
           managedAuthName == dedupAuthName(uniqueKey)
           stored == IF managedAuthName \in DOMAIN st.AuthInfos
                     THEN mergeAuthInfo(serverAuth, st.AuthInfos[managedAuthName])
                     ELSE serverAuth
       IN  [AuthInfos |-> Put(st.AuthInfos, managedAuthName, stored),
            authInfoMap |-> Put(st.authInfoMap, uniqueKey, managedAuthName)]
  ELSE LET managedAuthName == managedNameFunc(serverName) IN
       IF managedAuthName \notin DOMAIN st.AuthInfos
       THEN [st EXCEPT !.AuthInfos = Put(st.AuthInfos, managedAuthName, serverAuth)]
       ELSE LET localAuth == st.AuthInfos[managedAuthName] IN
            IF ~authInfoEqual(localAuth, serverAuth)
            THEN [st EXCEPT !.AuthInfos =
                     Put(st.AuthInfos, managedAuthName, mergeAuthInfo(serverAuth, localAuth))]
            ELSE st

RECURSIVE MergeAuthInfos(_, _, _, _, _)
MergeAuthInfos(order, i, st, serverAuthInfos, dedup) ==
  IF i > Len(order) THEN st
  ELSE MergeAuthInfos(order, i + 1,
                      MergeAuthInfoStep(st, order[i], serverAuthInfos[order[i]], dedup),
                      serverAuthInfos, dedup)

\* The context loop with the missing user skipped instead of reported.
MergeContextStep_SkipsMissing(st, serverName, serverCtx, serverAuthInfos, dedup) ==
  IF serverCtx.AuthInfo \notin DOMAIN serverAuthInfos
  THEN st
  ELSE LET name == IF dedup
                   THEN dedupAuthName(generateAuthInfoKey(serverAuthInfos[serverCtx.AuthInfo]))
                   ELSE managedNameFunc(serverCtx.AuthInfo)
       IN  [st EXCEPT !.Contexts =
              Put(st.Contexts, serverName,
                  [serverCtx EXCEPT !.Cluster = managedNameFunc(serverCtx.Cluster),
                                    !.AuthInfo = name])]

\* "Merge Contexts": one iteration of the loop over serverConfig.Contexts.
\* st carries localConfig.AuthInfos, localConfig.Contexts, authInfoMap and err.
MergeContextStep(st, serverName, serverCtx, serverAuthInfos, dedup) ==
  LET managedName == serverName
      serverAuthName == serverCtx.AuthInfo
  IN
  IF dedup /\ serverAuthName \notin DOMAIN serverAuthInfos
  THEN [st EXCEPT !.err = TRUE]
  ELSE
    LET uniqueKey == generateAuthInfoKey(serverAuthInfos[serverAuthName])
        existsInMap == dedup /\ uniqueKey \in DOMAIN st.authInfoMap
        managedAuthInfoName ==
          IF dedup
          THEN IF existsInMap THEN st.authInfoMap[uniqueKey] ELSE dedupAuthName(uniqueKey)
          ELSE managedNameFunc(serverCtx.AuthInfo)
        st1 == IF dedup /\ ~existsInMap
               THEN [st EXCEPT
                       !.authInfoMap = Put(st.authInfoMap, uniqueKey, managedAuthInfoName),
                       !.AuthInfos = Put(st.AuthInfos, managedAuthInfoName,
                                         serverAuthInfos[serverAuthName])]
               ELSE st
        managedClusterName == managedNameFunc(serverCtx.Cluster)
        serverCtxCopy == [serverCtx EXCEPT !.Cluster = managedClusterName,
                                           !.AuthInfo = managedAuthInfoName]
    IN
    IF managedName \notin DOMAIN st1.Contexts
    THEN [st1 EXCEPT !.Contexts = Put(st1.Contexts, managedName, serverCtxCopy)]
    ELSE LET localCtx == st1.Contexts[managedName] IN
         IF \/ localCtx.Cluster # serverCtxCopy.Cluster
            \/ localCtx.AuthInfo # serverCtxCopy.AuthInfo
            \/ localCtx.Namespace # serverCtxCopy.Namespace
         THEN [st1 EXCEPT !.Contexts = Put(st1.Contexts, managedName, serverCtxCopy)]
         ELSE st1

\* The loop returns from mergeKubeconfig at the first context that fails.
RECURSIVE MergeContexts(_, _, _, _, _)
MergeContexts(order, i, st, serverConfig, dedup) ==
  IF i > Len(order) \/ st.err THEN st
  ELSE MergeContexts(order, i + 1,
                     MergeContextStep(st, order[i], serverConfig.Contexts[order[i]],
                                      serverConfig.AuthInfos, dedup),
                     serverConfig, dedup)

\* The cluster deletion loop deleting nothing.
KeepCluster_KeepsAll(localName, serverConfig) == TRUE

\* "Delete managed Clusters not present in serverConfig": whether an entry stays.
KeepCluster(localName, serverConfig) ==
  ~isManaged(localName) \/ unmanagedNameFunc(localName) \in DOMAIN serverConfig.Clusters

\* The user deletion loop without the isManaged test.
KeepAuthInfo_AnyName(localName, serverConfig, authInfoMap, dedup) ==
  IF dedup
  THEN \E k \in DOMAIN authInfoMap : authInfoMap[k] = localName
  ELSE unmanagedNameFunc(localName) \in DOMAIN serverConfig.AuthInfos

\* The user deletion loop applying the rule of the non-dedup mode in both modes.
KeepAuthInfo_ByRemoteName(localName, serverConfig, authInfoMap, dedup) ==
  \/ ~isManaged(localName)
  \/ unmanagedNameFunc(localName) \in DOMAIN serverConfig.AuthInfos
  \/ \E k \in DOMAIN authInfoMap : authInfoMap[k] = localName

\* "Delete managed AuthInfos not present in serverConfig": whether an entry stays.
KeepAuthInfo(localName, serverConfig, authInfoMap, dedup) ==
  \/ ~isManaged(localName)
  \/ IF dedup
     THEN \E k \in DOMAIN authInfoMap : authInfoMap[k] = localName
     ELSE unmanagedNameFunc(localName) \in DOMAIN serverConfig.AuthInfos

\* "Delete managed Contexts not present in serverConfig": whether an entry stays.
KeepContext(localName, localCtx, serverConfig, authInfoMap, dedup) ==
  \/ ~isManaged(localName)
  \/ LET serverName == unmanagedNameFunc(localName) IN
     /\ serverName \in DOMAIN serverConfig.Contexts
     /\ LET serverCtx == serverConfig.Contexts[serverName]
            expectedCluster == managedNameFunc(serverCtx.Cluster)
        IN  IF dedup
            THEN /\ serverCtx.AuthInfo \in DOMAIN serverConfig.AuthInfos
                 /\ LET uniqueKey ==
                          generateAuthInfoKey(serverConfig.AuthInfos[serverCtx.AuthInfo])
                    IN  /\ uniqueKey \in DOMAIN authInfoMap
                        /\ localCtx.Cluster = expectedCluster
                        /\ localCtx.AuthInfo = authInfoMap[uniqueKey]
            ELSE /\ localCtx.Cluster = expectedCluster
                 /\ localCtx.AuthInfo = managedNameFunc(serverCtx.AuthInfo)

\* The three deletion loops.  Each iteration decides on its own key from
\* serverConfig and authInfoMap alone, so the visiting order has no effect.
Prune(cfg, serverConfig, authInfoMap, dedup) ==
  [Clusters  |-> [k \in {n \in DOMAIN cfg.Clusters : KeepCluster(n, serverConfig)}
                    |-> cfg.Clusters[k]],
   AuthInfos |-> [k \in {n \in DOMAIN cfg.AuthInfos :
                           KeepAuthInfo(n, serverConfig, authInfoMap, dedup)}
                    |-> cfg.AuthInfos[k]],
   Contexts  |-> [k \in {n \in DOMAIN cfg.Contexts :
                           KeepContext(n, cfg.Contexts[n], serverConfig, authInfoMap, dedup)}
                    |-> cfg.Contexts[k]]]

\* mergeKubeconfig running the deletion loops before it returns the error.
mergeKubeconfig_PrunesOnError(localConfig, serverConfig, dedup, authOrder, ctxOrder) ==
  LET clusters == MergeClusters(SomeOrder(DOMAIN serverConfig.Clusters), 1,
                                localConfig.Clusters, serverConfig.Clusters)
      a == MergeAuthInfos(authOrder, 1,
                          [AuthInfos |-> localConfig.AuthInfos, authInfoMap |-> EmptyMap],
                          serverConfig.AuthInfos, dedup)
      c == MergeContexts(ctxOrder, 1,
                         [AuthInfos |-> a.AuthInfos, authInfoMap |-> a.authInfoMap,
                          Contexts |-> localConfig.Contexts, err |-> FALSE],
                         serverConfig, dedup)
      merged == [Clusters |-> clusters, AuthInfos |-> c.AuthInfos, Contexts |-> c.Contexts]
  IN  [config |-> Prune(merged, serverConfig, c.authInfoMap, dedup), err |-> c.err]

\* mergeKubeconfig(localConfig, serverConfig) with the flag mergeIdenticalUsers = dedup,
\* for one visiting order of serverConfig.AuthInfos and one of serverConfig.Contexts.
\* The result is the mutated localConfig and whether an error was returned.
mergeKubeconfig(localConfig, serverConfig, dedup, authOrder, ctxOrder) ==
  LET clusters == MergeClusters(SomeOrder(DOMAIN serverConfig.Clusters), 1,
                                localConfig.Clusters, serverConfig.Clusters)
      a == MergeAuthInfos(authOrder, 1,
                          [AuthInfos |-> localConfig.AuthInfos, authInfoMap |-> EmptyMap],
                          serverConfig.AuthInfos, dedup)
      c == MergeContexts(ctxOrder, 1,
                         [AuthInfos |-> a.AuthInfos, authInfoMap |-> a.authInfoMap,
                          Contexts |-> localConfig.Contexts, err |-> FALSE],
                         serverConfig, dedup)
      merged == [Clusters |-> clusters, AuthInfos |-> c.AuthInfos, Contexts |-> c.Contexts]
  IN  IF c.err
      THEN [config |-> merged, err |-> TRUE]
      ELSE [config |-> Prune(merged, serverConfig, c.authInfoMap, dedup), err |-> FALSE]

\* ------------------------------------------------------------------ objects written by the merge

\* mergeKubeconfig stores pointers, so localConfig may hold the very objects serverConfig
\* holds.  An object is named by where it lives: the object serverConfig.<kind>[name]
\* points to, or (incoming = FALSE) an object allocated during the call.
ServerObject(kind, name) == [incoming |-> TRUE, kind |-> kind, name |-> name]

\* DeepCopy returning its receiver: the assignments that follow reach the original.
DeepCopy_SameObject(obj) == obj

\* x.DeepCopy(): a new object, separate from every object of serverConfig.
DeepCopy(obj) == [obj EXCEPT !.incoming = FALSE]

\* The field assignments made through the pointer obj leave that object with `value`;
\* the result is what serverConfig holds afterwards.
Assign(server, obj, value) ==
  IF obj.incoming THEN [server EXCEPT ![obj.kind] = Put(@, obj.name, value)] ELSE server

\* One iteration of "Merge AuthInfos" together with the objects it assigns to:
\* mergeAuthInfo writes id-token and refresh-token into mergedAuth.
\* st carries localConfig.AuthInfos, authInfoMap and serverConfig.
WriteAuthInfoStep(st, serverName, dedup) ==
  LET serverAuth == st.server.AuthInfos[serverName]
      managedAuthName == IF dedup THEN dedupAuthName(generateAuthInfoKey(serverAuth))
                         ELSE managedNameFunc(serverName)
      merges == /\ managedAuthName \in DOMAIN st.AuthInfos
                /\ dedup \/ ~authInfoEqual(st.AuthInfos[managedAuthName], serverAuth)
      mergedAuth == DeepCopy(ServerObject("AuthInfos", serverName))
      next == MergeAuthInfoStep([AuthInfos |-> st.AuthInfos, authInfoMap |-> st.authInfoMap],
                                serverName, serverAuth, dedup)
  IN  [AuthInfos |-> next.AuthInfos,
       authInfoMap |-> next.authInfoMap,
       server |-> IF merges
                  THEN Assign(st.server, mergedAuth,
                              mergeAuthInfo(serverAuth, st.AuthInfos[managedAuthName]))
                  ELSE st.server]

RECURSIVE WriteAuthInfos(_, _, _, _)
WriteAuthInfos(order, i, st, dedup) ==
  IF i > Len(order) THEN st
  ELSE WriteAuthInfos(order, i + 1, WriteAuthInfoStep(st, order[i], dedup), dedup)

\* One iteration of "Merge Contexts" together with the objects it assigns to:
\* Cluster and AuthInfo are set on serverCtxCopy.
\* st carries localConfig.AuthInfos, localConfig.Contexts, authInfoMap, err and serverConfig.
WriteContextStep(st, serverName, dedup) ==
  LET serverCtx == st.server.Contexts[serverName]
      next == MergeContextStep([AuthInfos |-> st.AuthInfos, authInfoMap |-> st.authInfoMap,
                                Contexts |-> st.Contexts, err |-> st.err],
                               serverName, serverCtx, st.server.AuthInfos, dedup)
      managedAuthInfoName ==
        IF dedup
        THEN next.authInfoMap[generateAuthInfoKey(st.server.AuthInfos[serverCtx.AuthInfo])]
        ELSE managedNameFunc(serverCtx.AuthInfo)
      serverCtxCopy == DeepCopy(ServerObject("Contexts", serverName))
  IN  [AuthInfos |-> next.AuthInfos,
       authInfoMap |-> next.authInfoMap,
       Contexts |-> next.Contexts,
       err |-> next.err,
       server |-> IF next.err THEN st.server
                  ELSE Assign(st.server, serverCtxCopy,
                              [serverCtx EXCEPT !.Cluster = managedNameFunc(serverCtx.Cluster),
                                                !.AuthInfo = managedAuthInfoName])]

RECURSIVE WriteContexts(_, _, _, _)
WriteContexts(order, i, st, dedup) ==
  IF i > Len(order) \/ st.err THEN st
  ELSE WriteContexts(order, i + 1, WriteContextStep(st, order[i], dedup), dedup)

\* serverConfig as mergeKubeconfig(localConfig, serverConfig) leaves it.  The cluster
\* loop and the deletion loops assign to the maps of localConfig only, and to no object.
ServerConfigAfter(localConfig, serverConfig, dedup, authOrder, ctxOrder) ==
  LET a == WriteAuthInfos(authOrder, 1,
                          [AuthInfos |-> localConfig.AuthInfos, authInfoMap |-> EmptyMap,
                           server |-> serverConfig],
                          dedup)
      c == WriteContexts(ctxOrder, 1,
                         [AuthInfos |-> a.AuthInfos, authInfoMap |-> a.authInfoMap,
                          Contexts |-> localConfig.Contexts, err |-> FALSE,
                          server |-> a.server],
                         dedup)
  IN  c.server

\* ------------------------------------------------------------------ buildIncomingKubeconfig

NewConfig == [Clusters |-> EmptyMap, AuthInfos |-> EmptyMap, Contexts |-> EmptyMap]

\* The label keys of the model in the order json.Marshal writes them (sorted).
LabelKeys == <<"env">>

RECURSIVE MarshalFrom(_, _)
MarshalFrom(labels, i) ==
  IF i > Len(LabelKeys) THEN <<>>
  ELSE (IF LabelKeys[i] \in DOMAIN labels
        THEN <<LabelKeys[i], ":", labels[LabelKeys[i]], ",">> ELSE <<>>)
       \o MarshalFrom(labels, i + 1)

\* json.Marshal(ckc.Labels)
MarshalLabels(labels) == <<"{">> \o MarshalFrom(labels, 1) \o <<"}">>

RECURSIVE AddContexts(_, _, _)
AddContexts(contexts, list, i) ==
  IF i > Len(list) THEN contexts
  ELSE AddContexts(Put(contexts, list[i].Name,
                       [Cluster |-> list[i].Context.Cluster,
                        AuthInfo |-> list[i].Context.AuthInfo,
                        Namespace |-> list[i].Context.Namespace]),
                   list, i + 1)

\* The users loop keeping the first user declared under a name.
RECURSIVE AddAuthInfos_KeepsFirst(_, _, _)
AddAuthInfos_KeepsFirst(authInfos, list, i) ==
  IF i > Len(list) THEN authInfos
  ELSE AddAuthInfos_KeepsFirst(
         IF list[i].Name \in DOMAIN authInfos THEN authInfos
         ELSE Put(authInfos, list[i].Name,
                  [ClientCertificateData |-> list[i].AuthInfo.ClientCertificateData,
                   ClientKeyData |-> list[i].AuthInfo.ClientKeyData,
                   AuthProvider |-> Provider(list[i].AuthInfo.AuthProvider.Name,
                                             list[i].AuthInfo.AuthProvider.Config)]),
         list, i + 1)

RECURSIVE AddAuthInfos(_, _, _)
AddAuthInfos(authInfos, list, i) ==
  IF i > Len(list) THEN authInfos
  ELSE AddAuthInfos(Put(authInfos, list[i].Name,
                        [ClientCertificateData |-> list[i].AuthInfo.ClientCertificateData,
                         ClientKeyData |-> list[i].AuthInfo.ClientKeyData,
                         AuthProvider |-> Provider(list[i].AuthInfo.AuthProvider.Name,
                                                   list[i].AuthInfo.AuthProvider.Config)]),
                    list, i + 1)

RECURSIVE AddClusters(_, _, _, _)
AddClusters(clusters, list, labels, i) ==
  IF i > Len(list) THEN clusters
  ELSE AddClusters(Put(clusters, list[i].Name,
                       [Server |-> list[i].Cluster.Server,
                        CertificateAuthorityData |-> list[i].Cluster.CertificateAuthorityData,
                        Extensions |-> IF DOMAIN labels # {}
                                       THEN Put(EmptyMap, "labels", MarshalLabels(labels))
                                       ELSE EmptyMap]),
                   list, labels, i + 1)

RECURSIVE BuildFrom(_, _, _)
BuildFrom(kubeconfig, items, i) ==
  IF i > Len(items) THEN kubeconfig
  ELSE LET ckc == items[i] IN
       BuildFrom([Contexts  |-> AddContexts(kubeconfig.Contexts, ckc.Contexts, 1),
                  AuthInfos |-> AddAuthInfos(kubeconfig.AuthInfos, ckc.AuthInfo, 1),
                  Clusters  |-> AddClusters(kubeconfig.Clusters, ckc.Clusters, ckc.Labels, 1)],
                 items, i + 1)

buildIncomingKubeconfig(items) == BuildFrom(NewConfig, items, 1)

\* ------------------------------------------------------------------ inputs

MaxSyncs == 2

MaxItems == 2

Map1(k, v) == Put(EmptyMap, k, v)

Scopes12 == <<"email", ",", "groups">>

Scopes21 == <<"groups", ",", "email">>

OidcConfig(issuer, scopes) ==
  [k \in {"idp-issuer-url", "client-id", "extra-scopes"} |->
     IF k = "idp-issuer-url" THEN issuer ELSE IF k = "client-id" THEN <<"cid">> ELSE scopes]

WithTokens(config, idToken, refreshToken) ==
  LET c1 == IF idToken # <<>> THEN Put(config, "id-token", idToken) ELSE config
  IN  IF refreshToken # <<>> THEN Put(c1, "refresh-token", refreshToken) ELSE c1

\* The "user" of a remote record: certificate bytes and an auth-provider struct.
RemoteOidc(config) ==
  [ClientCertificateData |-> <<>>, ClientKeyData |-> <<>>,
   AuthProvider |-> [Name |-> "oidc", Config |-> config]]

RemoteCert(cert, key) ==
  [ClientCertificateData |-> cert, ClientKeyData |-> key,
   AuthProvider |-> [Name |-> "", Config |-> EmptyMap]]

\* The users the remote records of slot s may declare.  Across the two slots there
\* are users that agree in every field, that differ only in tokens, only in the
\* order of extra-scopes, only in the issuer URL (a field outside the dedup key),
\* and certificate users with different certificates.
RemoteUsers(s) ==
  IF s = 1
  THEN { RemoteOidc(OidcConfig(<<"iss1">>, Scopes12)),
         RemoteOidc(WithTokens(OidcConfig(<<"iss1">>, Scopes12), <<"tokB">>, <<"refB">>)),
         RemoteCert(<<"certA">>, <<"keyA">>) }
  ELSE { RemoteOidc(OidcConfig(<<"iss1">>, Scopes12)),
         RemoteOidc(WithTokens(OidcConfig(<<"iss1">>, Scopes21), <<"tokC">>, <<>>)),
         RemoteOidc(OidcConfig(<<"iss2">>, Scopes12)),
         RemoteCert(<<"certB">>, <<"keyB">>) }

\* The names a remote record of slot s declares: its cluster, user and context.
SlotNames(s) ==
  IF s = 1 THEN [cluster |-> <<"a">>, user |-> <<"u">>, context |-> <<"x">>]
           ELSE [cluster |-> <<"b">>, user |-> <<"v">>, context |-> <<"y">>]

\* A ClusterKubeconfig with one cluster, one user and one context binding them.
Record(s, user, ctxName, namespace, labels) ==
  [Labels   |-> labels,
   Contexts |-> << [Name |-> ctxName,
                    Context |-> [Cluster |-> SlotNames(s).cluster,
                                 AuthInfo |-> SlotNames(s).user,
                                 Namespace |-> namespace]] >>,
   AuthInfo |-> << [Name |-> SlotNames(s).user, AuthInfo |-> user] >>,
   Clusters |-> << [Name |-> SlotNames(s).cluster,
                    Cluster |-> [Server |-> "https://remote",
                                 CertificateAuthorityData |-> <<"ca">>]] >>]

\* A ClusterKubeconfig whose context names a user that the record does not declare.
DanglingRecord ==
  [Labels   |-> EmptyMap,
   Contexts |-> << [Name |-> <<"y">>,
                    Context |-> [Cluster |-> <<"b">>, AuthInfo |-> <<"v">>,
                                 Namespace |-> ""]] >>,
   AuthInfo |-> <<>>,
   Clusters |-> <<>>]

RecordPool ==
  UNION { { Record(s, user, SlotNames(s).context, "", EmptyMap) : user \in RemoteUsers(s) }
          : s \in 1..2 }
  \cup { Record(1, RemoteOidc(OidcConfig(<<"iss1">>, Scopes12)),
                prefix \o <<":">> \o <<"x">>, "prod", Map1("env", "qa")),
         DanglingRecord }

ItemLists == UNION { [1..n -> RecordPool] : n \in 0..MaxItems }

\* ----- the local kubeconfig file before the first sync

LocalOidc(config) ==
  [ClientCertificateData |-> <<>>, ClientKeyData |-> <<>>,
   AuthProvider |-> Provider("oidc", config)]

\* Entries of the user's own: nothing under the managed prefix.
ForeignPart ==
  [Clusters  |-> Map1(<<"home">>, [Server |-> "https://home",
                                   CertificateAuthorityData |-> <<"hca">>,
                                   Extensions |-> EmptyMap]),
   AuthInfos |-> Map1(<<"me">>, [ClientCertificateData |-> <<"mycert">>,
                                 ClientKeyData |-> <<"mykey">>,
                                 AuthProvider |-> NoProvider]),
   Contexts  |-> Put(Map1(<<"x">>, [Cluster |-> <<"home">>, AuthInfo |-> <<"me">>,
                                    Namespace |-> "mine"]),
                     <<"work">>, [Cluster |-> <<"home">>, AuthInfo |-> <<"me">>,
                                  Namespace |-> ""])]

\* Entries left by earlier syncs (in both modes), with tokens obtained since.
ManagedPart ==
  LET cred == LocalOidc(WithTokens(OidcConfig(<<"iss1">>, Scopes12), <<"tokA">>, <<"refA">>))
  IN
  [Clusters  |-> Map1(managedNameFunc(<<"gone">>),
                      [Server |-> "https://gone", CertificateAuthorityData |-> <<"ca">>,
                       Extensions |-> EmptyMap]),
   AuthInfos |-> Put(Put(Map1(managedNameFunc(<<"u">>), cred),
                         dedupAuthName(generateAuthInfoKey(cred)), cred),
                     managedNameFunc(<<"old">>),
                     LocalOidc(WithTokens(OidcConfig(<<"iss0">>, Scopes12), <<"tokO">>, <<>>))),
   Contexts  |-> Map1(<<"stale">>, [Cluster |-> managedNameFunc(<<"gone">>),
                                    AuthInfo |-> managedNameFunc(<<"old">>),
                                    Namespace |-> ""])]

\* Union of two configs with disjoint keys.
Join(f, g) == [k \in (DOMAIN f) \cup (DOMAIN g) |-> IF k \in DOMAIN f THEN f[k] ELSE g[k]]

JoinConfig(c, d) ==
  [Clusters |-> Join(c.Clusters, d.Clusters), AuthInfos |-> Join(c.AuthInfos, d.AuthInfos),
   Contexts |-> Join(c.Contexts, d.Contexts)]

InitialFiles ==
  { NewConfig, ForeignPart, ManagedPart, JoinConfig(ForeignPart, ManagedPart) }

\* ------------------------------------------------------------------ runSync

VARIABLES
  kubeconfigFile,       \* the local kubeconfig file (remoteClusterKubeconfig)
  before,               \* localConfig as loaded by the latest run that merged
  localConfig,          \* localConfig after mergeKubeconfig in that run
  serverConfig,         \* serverConfig of that run
  mergeIdenticalUsers,  \* the flag in that run
  outcome,              \* of the latest run: "none", "nothing", "ok", "error"
  prevOutcome,          \* outcome of the run before the latest one
  prevDedup,            \* the flag of the merge before the latest merge
  sameIncoming,         \* the latest merge got the serverConfig of the merge before it
  serverAfter,          \* serverConfig as the latest mergeKubeconfig left it
  syncs,                \* number of runs so far
  phase,                \* of a single function call: "idle", "call", "return"
  authA, authB,         \* arguments of authInfoEqual and generateAuthInfoKey
  keyA, keyB,           \* generateAuthInfoKey(authA), generateAuthInfoKey(authB)
  equal,                \* authInfoEqual(authA, authB)
  items,                \* argument of buildIncomingKubeconfig
  kubeconfig,           \* its result
  cfg, extra, cacheDir, \* arguments of buildKubeloginArgs
  args                  \* its result

syncVars == <<kubeconfigFile, before, localConfig, serverConfig, mergeIdenticalUsers,
              outcome, prevOutcome, prevDedup, sameIncoming, serverAfter, syncs>>

authVars == <<authA, authB, keyA, keyB, equal>>

buildVars == <<items, kubeconfig>>

kubeloginVars == <<cfg, extra, cacheDir, args>>

vars == <<syncVars, phase, authVars, buildVars, kubeloginVars>>

\* No call of authInfoEqual / generateAuthInfoKey under way.
NoAuthCall ==
  /\ authA = <<>> /\ authB = <<>> /\ keyA = <<>> /\ keyB = <<>> /\ equal = FALSE

\* No call of buildIncomingKubeconfig under way.
NoBuildCall == items = <<>> /\ kubeconfig = <<>>

\* No call of buildKubeloginArgs under way.
NoKubeloginCall == cfg = <<>> /\ extra = <<>> /\ cacheDir = <<>> /\ args = <<>>

Init ==
  /\ kubeconfigFile \in InitialFiles
  /\ before = NewConfig
  /\ localConfig = NewConfig
  /\ serverConfig = NewConfig
  /\ serverAfter = NewConfig
  /\ mergeIdenticalUsers = TRUE
  /\ outcome = "none"
  /\ prevOutcome = "none"
  /\ prevDedup = TRUE
  /\ sameIncoming = FALSE
  /\ syncs = 0
  /\ phase = "idle"
  /\ NoAuthCall /\ NoBuildCall /\ NoKubeloginCall

\* runSync when the remote source returns no record: success, nothing loaded or written.
SyncNothing ==
  /\ syncs < MaxSyncs
  /\ syncs' = syncs + 1
  /\ outcome' = "nothing"
  /\ prevOutcome' = outcome
  /\ UNCHANGED <<kubeconfigFile, before, localConfig, serverConfig, mergeIdenticalUsers,
                 prevDedup, sameIncoming, serverAfter>>
  /\ UNCHANGED <<phase, authVars, buildVars, kubeloginVars>>

\* runSync with at least one record: load, buildIncomingKubeconfig, mergeKubeconfig,
\* and writeConfig when the merge returned no error.
Sync ==
  /\ syncs < MaxSyncs
  /\ UNCHANGED <<phase, authVars, buildVars, kubeloginVars>>
  /\ \E clusterKubeconfigs \in ItemLists \ {<<>>}, dedup \in BOOLEAN :
       LET incoming == buildIncomingKubeconfig(clusterKubeconfigs) IN
       \E authOrder \in Orders(DOMAIN incoming.AuthInfos),
          ctxOrder \in Orders(DOMAIN incoming.Contexts) :
         LET r == mergeKubeconfig(kubeconfigFile, incoming, dedup, authOrder, ctxOrder) IN
         /\ before' = kubeconfigFile
         /\ localConfig' = r.config
         /\ serverConfig' = incoming
         /\ serverAfter' = ServerConfigAfter(kubeconfigFile, incoming, dedup,
                                             authOrder, ctxOrder)
         /\ mergeIdenticalUsers' = dedup
         /\ outcome' = IF r.err THEN "error" ELSE "ok"
         /\ kubeconfigFile' = IF r.err THEN kubeconfigFile ELSE r.config
         /\ prevOutcome' = outcome
         /\ prevDedup' = mergeIdenticalUsers
         /\ sameIncoming' = (outcome \in {"ok", "error"} /\ incoming = serverConfig)
         /\ syncs' = syncs + 1

Next == SyncNothing \/ Sync

Spec == Init /\ [][Next]_vars

\* ------------------------------------------------------------------ single calls

\* runSync has not run: the state of Init with an empty kubeconfig file.
NoSync ==
  /\ kubeconfigFile = NewConfig /\ before = NewConfig /\ localConfig = NewConfig
  /\ serverConfig = NewConfig /\ serverAfter = NewConfig /\ mergeIdenticalUsers = TRUE
  /\ outcome = "none" /\ prevOutcome = "none" /\ prevDedup = TRUE
  /\ sameIncoming = FALSE /\ syncs = 0

\* ----- credentials handed to authInfoEqual and generateAuthInfoKey

NoExec == [nil |-> TRUE, APIVersion |-> "", Command |-> "", Args |-> <<>>]

Exec(apiVersion, command, execArgs) ==
  [nil |-> FALSE, APIVersion |-> apiVersion, Command |-> command, Args |-> execArgs]

\* A clientcmdapi.AuthInfo with the fields the sync command and its tests set.
AuthInfo(cert, key, provider, exec) ==
  [ClientCertificateData |-> cert, ClientKeyData |-> key, AuthProvider |-> provider,
   Exec |-> exec]

\* An auth-provider config with the five stable parameters; an empty value
\* stands for an absent key.
StableConfig(issuer, clientID, clientSecret, extraParams, extraScopes) ==
  LET all == [k \in {"idp-issuer-url", "client-id", "client-secret",
                     "auth-request-extra-params", "extra-scopes"} |->
                CASE k = "idp-issuer-url" -> issuer
                  [] k = "client-id" -> clientID
                  [] k = "client-secret" -> clientSecret
                  [] k = "auth-request-extra-params" -> extraParams
                  [] k = "extra-scopes" -> extraScopes]
  IN  [k \in {x \in DOMAIN all : all[x] # <<>>} |-> all[k]]

\* One base config, and configs that differ from it in one stable parameter, in
\* the order of the scopes, or in a parameter outside the five.
StableConfigs ==
  { StableConfig(<<"iss1">>, <<"cid">>, <<"csec">>, <<"aud=foo">>, Scopes12),
    StableConfig(<<"iss2">>, <<"cid">>, <<"csec">>, <<"aud=foo">>, Scopes12),
    StableConfig(<<"iss1">>, <<"cid2">>, <<"csec">>, <<"aud=foo">>, Scopes12),
    StableConfig(<<"iss1">>, <<"cid">>, <<>>, <<"aud=foo">>, Scopes12),
    StableConfig(<<"iss1">>, <<"cid">>, <<"csec">>, <<"aud=bar">>, Scopes12),
    StableConfig(<<"iss1">>, <<"cid">>, <<"csec">>, <<"aud=foo">>, <<"email">>),
    StableConfig(<<"iss1">>, <<"cid">>, <<"csec">>, <<"aud=foo">>, Scopes21),
    Put(StableConfig(<<"iss1">>, <<"cid">>, <<"csec">>, <<"aud=foo">>, Scopes12),
        "keep", <<"x">>),
    EmptyMap }

\* id-token and refresh-token of a credential: none, both, another id-token alone.
TokenChoices == { <<(<<>>), (<<>>)>>, <<(<<"tokA">>), (<<"refA">>)>>, <<(<<"tokB">>), (<<>>)>> }

GetTokenArgs(flags) == << <<"get-token">> >> \o flags

\* The flags of the exec credentials: issuer, client id and two scopes.
BaseFlags ==
  << <<"--oidc-issuer-url=", "x">>, <<"--oidc-client-id=", "a">>,
     <<"--oidc-extra-scope=", "email">>, <<"--oidc-extra-scope=", "groups">> >>

\* Credentials of the three kinds: auth-provider, client certificate, exec plugin.
Credentials ==
  { AuthInfo(<<>>, <<>>, Provider("oidc", WithTokens(c, t[1], t[2])), NoExec) :
      c \in StableConfigs, t \in TokenChoices }
  \cup
  { AuthInfo(<<>>, <<>>,
             Provider("other", StableConfig(<<"iss1">>, <<"cid">>, <<"csec">>, <<"aud=foo">>,
                                            Scopes12)), NoExec),
    AuthInfo(<<"certA">>, <<"keyA">>, NoProvider, NoExec),
    AuthInfo(<<"certB">>, <<"keyA">>, NoProvider, NoExec),
    AuthInfo(<<"certA">>, <<"keyB">>, NoProvider, NoExec),
    AuthInfo(<<"certA">>, <<>>, NoProvider, NoExec),
    AuthInfo(<<>>, <<"certA">>, NoProvider, NoExec),
    AuthInfo(<<>>, <<>>, NoProvider, NoExec),
    AuthInfo(<<"certA">>, <<"keyA">>, Provider("", EmptyMap), NoExec),
    AuthInfo(<<"certA">>, <<"keyA">>,
             Provider("oidc", StableConfig(<<"iss1">>, <<"cid">>, <<"csec">>, <<"aud=foo">>,
                                           Scopes12)), NoExec),
    AuthInfo(<<>>, <<>>, NoProvider,
             Exec("client.authentication.k8s.io/v1", "kubelogin",
                  GetTokenArgs(BaseFlags))),
    AuthInfo(<<>>, <<>>, NoProvider,
             Exec("client.authentication.k8s.io/v1", "kubelogin",
                  GetTokenArgs([BaseFlags EXCEPT ![2] = <<"--oidc-client-id=", "DIFF">>]))),
    AuthInfo(<<>>, <<>>, NoProvider,
             Exec("client.authentication.k8s.io/v1", "other",
                  GetTokenArgs(BaseFlags))),
    AuthInfo(<<>>, <<>>, NoProvider,
             Exec("client.authentication.k8s.io/v1beta1", "kubelogin",
                  GetTokenArgs(BaseFlags))),
    AuthInfo(<<>>, <<>>, NoProvider,
             Exec("client.authentication.k8s.io/v1", "kubelogin",
                  GetTokenArgs(<< <<"--oidc-extra-scope=", "groups">>,
                                  <<"--oidc-client-id=", "a">>, <<"--oidc-issuer-url=", "x">>,
                                  <<"--oidc-extra-scope=", "email">>, <<"--v=", "4">> >>))) }

InitAuth ==
  /\ NoSync /\ NoBuildCall /\ NoKubeloginCall
  /\ phase = "call"
  /\ authA \in Credentials /\ authB \in Credentials
  /\ keyA = <<>> /\ keyB = <<>> /\ equal = FALSE

\* generateAuthInfoKey on each credential and authInfoEqual on the pair.
CompareAuthInfos ==
  /\ phase = "call"
  /\ authA \in Credentials
  /\ keyA' = generateAuthInfoKey(authA)
  /\ keyB' = generateAuthInfoKey(authB)
  /\ equal' = authInfoEqual(authA, authB)
  /\ phase' = "return"
  /\ UNCHANGED <<syncVars, authA, authB, buildVars, kubeloginVars>>

NextAuth == CompareAuthInfos

SpecAuth == InitAuth /\ [][NextAuth]_vars

\* ----- record lists handed to buildIncomingKubeconfig

\* A ClusterKubeconfig with labels and no cluster, user or context.
EmptyRecord ==
  [Labels |-> Map1("env", "qa"), Contexts |-> <<>>, AuthInfo |-> <<>>, Clusters |-> <<>>]

\* A ClusterKubeconfig with two clusters, two users (one name twice) and two contexts.
LargeRecord ==
  [Labels   |-> Map1("env", "dev"),
   Contexts |-> << [Name |-> <<"x">>,
                    Context |-> [Cluster |-> <<"a">>, AuthInfo |-> <<"u">>,
                                 Namespace |-> "one"]],
                   [Name |-> <<"z">>,
                    Context |-> [Cluster |-> <<"b">>, AuthInfo |-> <<"u">>,
                                 Namespace |-> "two"]] >>,
   AuthInfo |-> << [Name |-> <<"u">>, AuthInfo |-> RemoteCert(<<"certA">>, <<"keyA">>)],
                   [Name |-> <<"u">>, AuthInfo |-> RemoteCert(<<"certB">>, <<"keyB">>)] >>,
   Clusters |-> << [Name |-> <<"a">>,
                    Cluster |-> [Server |-> "https://large-a",
                                 CertificateAuthorityData |-> <<"ca2">>]],
                   [Name |-> <<"b">>,
                    Cluster |-> [Server |-> "https://large-b",
                                 CertificateAuthorityData |-> <<"ca2">>]] >>]

BuildLists ==
  UNION { [1..n -> RecordPool \cup {EmptyRecord, LargeRecord}] : n \in 0..MaxItems }

InitBuild ==
  /\ NoSync /\ NoAuthCall /\ NoKubeloginCall
  /\ phase = "call"
  /\ items \in BuildLists
  /\ kubeconfig = <<>>

\* buildIncomingKubeconfig(items)
BuildIncoming ==
  /\ phase = "call"
  /\ items \in BuildLists
  /\ kubeconfig' = buildIncomingKubeconfig(items)
  /\ phase' = "return"
  /\ UNCHANGED <<syncVars, authVars, items, kubeloginVars>>

NextBuild == BuildIncoming

SpecBuild == InitBuild /\ [][NextBuild]_vars

\* ------------------------------------------------------------------ buildKubeloginArgs

\* The exec argument synthesizer.  A parameter value is a sequence of tokens in which
\* "," separates list entries, "=" separates a key from its value and " " is a blank;
\* an argument is the flag token followed by the tokens of its value.

\* strings.Split(s, sep) for a one-token separator; no entry for the empty string.
RECURSIVE SplitFrom(_, _, _, _)
SplitFrom(s, sep, i, entry) ==
  IF i > Len(s) THEN <<entry>>
  ELSE IF s[i] = sep THEN <<entry>> \o SplitFrom(s, sep, i + 1, <<>>)
  ELSE SplitFrom(s, sep, i + 1, Append(entry, s[i]))

Split(s, sep) == IF s = <<>> THEN <<>> ELSE SplitFrom(s, sep, 1, <<>>)

\* One flag when the parameter has a value, none when it is missing or empty.
FlagIfSet(flag, value) == IF value = <<>> THEN <<>> ELSE << <<flag>> \o value >>

\* The scope flags with the blanks of the entries kept.
ScopeFlags_Untrimmed(entries) == [i \in DOMAIN entries |-> <<"--oidc-extra-scope=">> \o entries[i]]

\* One --oidc-extra-scope flag per entry of the list, blanks around the entry removed.
ScopeFlags(entries) == [i \in DOMAIN entries |-> <<"--oidc-extra-scope=">> \o TrimSpace(entries[i])]

\* The value of the first key=value pair of the list whose key is connector_id;
\* empty when there is none.
RECURSIVE ConnectorID(_, _)
ConnectorID(pairs, i) ==
  IF i > Len(pairs) THEN <<>>
  ELSE LET kv == pairs[i] IN
       IF Len(kv) >= 2 /\ kv[1] = "connector_id" /\ kv[2] = "="
       THEN SubSeq(kv, 3, Len(kv))
       ELSE ConnectorID(pairs, i + 1)

\* The connector id looked for in the first pair only.
TokenCacheDir_FirstPairOnly(extraParams, cacheBaseDir) ==
  LET pairs == Split(extraParams, ",")
      id == IF pairs = <<>> THEN <<>> ELSE ConnectorID(<<pairs[1]>>, 1)
  IN  IF id = <<>> THEN cacheBaseDir ELSE cacheBaseDir \o <<"/">> \o id

\* The token cache directory: per connector when a connector id is given.
TokenCacheDir(extraParams, cacheBaseDir) ==
  LET id == ConnectorID(Split(extraParams, ","), 1)
  IN  IF id = <<>> THEN cacheBaseDir ELSE cacheBaseDir \o <<"/">> \o id

\* The scope flags of an extra-scopes value.
ExtraScopeFlags(extraScopes) == ScopeFlags(Split(extraScopes, ","))

\* The synthesizer with the caller's arguments put in front of the cache directory flag.
buildKubeloginArgs_ExtraBeforeCacheDir(config, extraArgs, cacheBaseDir) ==
  << <<"get-token">> >>
  \o FlagIfSet("--oidc-issuer-url=", Get(config, "idp-issuer-url"))
  \o FlagIfSet("--oidc-client-id=", Get(config, "client-id"))
  \o FlagIfSet("--oidc-client-secret=", Get(config, "client-secret"))
  \o ExtraScopeFlags(Get(config, "extra-scopes"))
  \o FlagIfSet("--oidc-auth-request-extra-params=", Get(config, "auth-request-extra-params"))
  \o extraArgs
  \o << <<"--token-cache-dir=">>
          \o TokenCacheDir(Get(config, "auth-request-extra-params"), cacheBaseDir) >>

buildKubeloginArgs(config, extraArgs, cacheBaseDir) ==
  << <<"get-token">> >>
  \o FlagIfSet("--oidc-issuer-url=", Get(config, "idp-issuer-url"))
  \o FlagIfSet("--oidc-client-id=", Get(config, "client-id"))
  \o FlagIfSet("--oidc-client-secret=", Get(config, "client-secret"))
  \o ExtraScopeFlags(Get(config, "extra-scopes"))
  \o FlagIfSet("--oidc-auth-request-extra-params=", Get(config, "auth-request-extra-params"))
  \o << <<"--token-cache-dir=">>
          \o TokenCacheDir(Get(config, "auth-request-extra-params"), cacheBaseDir) >>
  \o extraArgs

\* ----- arguments handed to buildKubeloginArgs

ScopeValues ==
  { <<>>, <<"a">>, <<"a", ",", " ", "b", " ", ",", "c">>,
    <<"groups", ",", " ", "offline_access", " ", ",", "email">> }

ExtraParamValues ==
  { <<>>,
    <<"aud", "=", "foo", ",", "foo", "=", "bar">>,
    <<"connector_id", "=", "my-id">>,
    <<"foo", "=", "bar", ",", "connector_id", "=", "XYZ">>,
    <<"foo", "=", "bar", ",", "connector_id", "=", "another-id", ",", "baz", "=", "qux">>,
    <<"connector_id", "=", "XYZ", ",", "foo", "=", "bar">>,
    <<"my_", "connector_id", "=", "Q", ",", "foo", "=", "connector_id">> }

KubeloginConfigs ==
  { StableConfig(issuer, <<"cid">>, secret, params, scopes) :
      issuer \in {<<>>, <<"https://issuer.example.com">>}, secret \in {<<>>, <<"csec">>},
      params \in ExtraParamValues, scopes \in ScopeValues }

ExtraArgLists ==
  { <<>>, << <<"--v=", "4">> >>, << <<"--v=", "4">>, <<"--token-cache-dir=", "/tmp/k">> >> }

CacheBaseDirs == { <<"/base">>, <<"$(HOME)/.kube/cache/oidc-login">> }

InitKubelogin ==
  /\ NoSync /\ NoAuthCall /\ NoBuildCall
  /\ phase = "call"
  /\ cfg \in KubeloginConfigs
  /\ extra \in ExtraArgLists
  /\ cacheDir \in CacheBaseDirs
  /\ args = <<>>

\* buildKubeloginArgs(cfg, extra, cacheDir)
BuildKubeloginArgs ==
  /\ phase = "call"
  /\ cfg \in KubeloginConfigs
  /\ args' = buildKubeloginArgs(cfg, extra, cacheDir)
  /\ phase' = "return"
  /\ UNCHANGED <<syncVars, authVars, buildVars, cfg, extra, cacheDir>>

NextKubelogin == BuildKubeloginArgs

SpecKubelogin == InitKubelogin /\ [][NextKubelogin]_vars

\* ------------------------------------------------------------------ one cluster, one merge

\* A ClusterKubeconfig declaring cluster "a" with the given CA bytes and labels.
EndpointRecord(ca, labels, namespace) ==
  [Labels   |-> labels,
   Contexts |-> << [Name |-> <<"x">>,
                    Context |-> [Cluster |-> <<"a">>, AuthInfo |-> <<"u">>,
                                 Namespace |-> namespace]] >>,
   AuthInfo |-> << [Name |-> <<"u">>,
                    AuthInfo |-> RemoteOidc(OidcConfig(<<"iss1">>, Scopes12))] >>,
   Clusters |-> << [Name |-> <<"a">>,
                    Cluster |-> [Server |-> "https://remote",
                                 CertificateAuthorityData |-> ca]] >>]

LabelChoices == { EmptyMap, Map1("env", "qa"), Map1("env", "prod") }

EndpointRecords ==
  { EndpointRecord(ca, labels, namespace) :
      ca \in { <<"ca">>, <<"newca">> }, labels \in LabelChoices, namespace \in {"", "prod"} }

\* A kubeconfig file that holds the managed cluster "a" as a sync left it and the user
\* edited it since: a TLS server name and a second named extension were added.
EndpointFile(server, ca, labels) ==
  [NewConfig EXCEPT !.Clusters =
     Map1(managedNameFunc(<<"a">>),
          [Server |-> server,
           CertificateAuthorityData |-> ca,
           TLSServerName |-> "tls.local",
           Extensions |-> Join(IF DOMAIN labels # {}
                               THEN Map1("labels", MarshalLabels(labels)) ELSE EmptyMap,
                               Map1("note", <<"mine">>))])]

EndpointFiles ==
  { EndpointFile(server, ca, labels) :
      server \in { "https://remote", "https://old" }, ca \in { <<"ca">>, <<"oldca">> },
      labels \in LabelChoices }

InitEndpoint ==
  /\ kubeconfigFile \in EndpointFiles
  /\ before = NewConfig /\ localConfig = NewConfig
  /\ serverConfig = NewConfig /\ serverAfter = NewConfig
  /\ mergeIdenticalUsers = TRUE
  /\ outcome = "none" /\ prevOutcome = "none" /\ prevDedup = TRUE
  /\ sameIncoming = FALSE /\ syncs = 0
  /\ phase = "idle"
  /\ NoAuthCall /\ NoBuildCall /\ NoKubeloginCall

\* runSync once with a single record that declares cluster "a".
SyncEndpoint ==
  /\ syncs = 0
  /\ UNCHANGED <<phase, authVars, buildVars, kubeloginVars>>
  /\ \E ckc \in EndpointRecords, dedup \in BOOLEAN :
       LET incoming == buildIncomingKubeconfig(<<ckc>>)
           authOrder == SomeOrder(DOMAIN incoming.AuthInfos)
           ctxOrder == SomeOrder(DOMAIN incoming.Contexts)
           r == mergeKubeconfig(kubeconfigFile, incoming, dedup, authOrder, ctxOrder)
       IN  /\ before' = kubeconfigFile
           /\ localConfig' = r.config
           /\ serverConfig' = incoming
           /\ serverAfter' = ServerConfigAfter(kubeconfigFile, incoming, dedup,
                                               authOrder, ctxOrder)
           /\ mergeIdenticalUsers' = dedup
           /\ outcome' = IF r.err THEN "error" ELSE "ok"
           /\ kubeconfigFile' = IF r.err THEN kubeconfigFile ELSE r.config
           /\ prevOutcome' = outcome
           /\ prevDedup' = mergeIdenticalUsers
           /\ sameIncoming' = FALSE
           /\ syncs' = 1

NextEndpoint == SyncEndpoint

SpecEndpoint == InitEndpoint /\ [][NextEndpoint]_vars

\* ------------------------------------------------------------------ runSync step by step

\* One run of the command: phase is the statement runSync is at ("fetch", "load",
\* "build", "merge", "write") or "done" after it returned; items holds the
\* fetched clusterKubeconfigs.
InitRun ==
  /\ kubeconfigFile \in InitialFiles
  /\ before = NewConfig /\ localConfig = NewConfig
  /\ serverConfig = NewConfig /\ serverAfter = NewConfig
  /\ mergeIdenticalUsers \in BOOLEAN
  /\ outcome = "none" /\ prevOutcome = "none" /\ prevDedup = TRUE
  /\ sameIncoming = FALSE /\ syncs = 0
  /\ phase = "fetch"
  /\ NoAuthCall /\ NoBuildCall /\ NoKubeloginCall

RunUnchanged ==
  UNCHANGED <<mergeIdenticalUsers, prevOutcome, prevDedup, sameIncoming, syncs,
              authVars, kubeconfig, kubeloginVars>>

\* The central kubeconfig, the client, or the Get / List call returns an error.
RunFetchFails ==
  /\ phase = "fetch"
  /\ phase' = "done" /\ outcome' = "fetch failed"
  /\ UNCHANGED <<kubeconfigFile, before, localConfig, serverConfig, serverAfter, items>>
  /\ RunUnchanged

\* len(clusterKubeconfigs) == 0: return nil.
RunFetchNothing ==
  /\ phase = "fetch"
  /\ phase' = "done" /\ outcome' = "nothing"
  /\ UNCHANGED <<kubeconfigFile, before, localConfig, serverConfig, serverAfter, items>>
  /\ RunUnchanged

RunFetch ==
  /\ phase = "fetch"
  /\ items' \in ItemLists \ {<<>>}
  /\ phase' = "load"
  /\ UNCHANGED <<kubeconfigFile, before, localConfig, serverConfig, serverAfter, outcome>>
  /\ RunUnchanged

\* clientcmd.LoadFromFile returns an error.
RunLoadFails ==
  /\ phase = "load"
  /\ phase' = "done" /\ outcome' = "load failed"
  /\ UNCHANGED <<kubeconfigFile, before, localConfig, serverConfig, serverAfter, items>>
  /\ RunUnchanged

RunLoad ==
  /\ phase = "load"
  /\ localConfig' = kubeconfigFile
  /\ phase' = "build"
  /\ UNCHANGED <<kubeconfigFile, before, serverConfig, serverAfter, items, outcome>>
  /\ RunUnchanged

\* buildIncomingKubeconfig: its one error, json.Marshal of a map[string]string
\* failing, cannot arise.
RunBuild ==
  /\ phase = "build"
  /\ serverConfig' = buildIncomingKubeconfig(items)
  /\ phase' = "merge"
  /\ UNCHANGED <<kubeconfigFile, before, localConfig, serverAfter, items, outcome>>
  /\ RunUnchanged

\* runSync going on to writeConfig although mergeKubeconfig returned an error.
RunMerge_IgnoresError ==
  /\ phase = "merge"
  /\ \E authOrder \in Orders(DOMAIN serverConfig.AuthInfos),
        ctxOrder \in Orders(DOMAIN serverConfig.Contexts) :
       LET r == mergeKubeconfig(localConfig, serverConfig, mergeIdenticalUsers,
                                authOrder, ctxOrder) IN
       /\ before' = localConfig
       /\ localConfig' = r.config
       /\ serverAfter' = ServerConfigAfter(localConfig, serverConfig, mergeIdenticalUsers,
                                           authOrder, ctxOrder)
       /\ outcome' = outcome
       /\ phase' = "write"
  /\ UNCHANGED <<kubeconfigFile, serverConfig, items>>
  /\ RunUnchanged

RunMerge ==
  /\ phase = "merge"
  /\ \E authOrder \in Orders(DOMAIN serverConfig.AuthInfos),
        ctxOrder \in Orders(DOMAIN serverConfig.Contexts) :
       LET r == mergeKubeconfig(localConfig, serverConfig, mergeIdenticalUsers,
                                authOrder, ctxOrder) IN
       /\ before' = localConfig
       /\ localConfig' = r.config
       /\ serverAfter' = ServerConfigAfter(localConfig, serverConfig, mergeIdenticalUsers,
                                           authOrder, ctxOrder)
       /\ outcome' = IF r.err THEN "error" ELSE outcome
       /\ phase' = IF r.err THEN "done" ELSE "write"
  /\ UNCHANGED <<kubeconfigFile, serverConfig, items>>
  /\ RunUnchanged

\* clientcmd.WriteToFile returns an error: the file is as it was, empty, or written.
RunWriteFails ==
  /\ phase = "write"
  /\ kubeconfigFile' \in {kubeconfigFile, NewConfig, localConfig}
  /\ phase' = "done" /\ outcome' = "write failed"
  /\ UNCHANGED <<before, localConfig, serverConfig, serverAfter, items>>
  /\ RunUnchanged

RunWrite ==
  /\ phase = "write"
  /\ kubeconfigFile' = localConfig
  /\ phase' = "done" /\ outcome' = "ok"
  /\ UNCHANGED <<before, localConfig, serverConfig, serverAfter, items>>
  /\ RunUnchanged

NextRun ==
  \/ RunFetchFails \/ RunFetchNothing \/ RunFetch
  \/ RunLoadFails \/ RunLoad
  \/ RunBuild
  \/ RunMerge
  \/ RunWriteFails \/ RunWrite

SpecRun == InitRun /\ [][NextRun]_vars

\* ------------------------------------------------------------------ claims

ManagedKeys(m) == {k \in DOMAIN m : isManaged(k)}

ForeignKeys(m) == {k \in DOMAIN m : ~isManaged(k)}

Merged == outcome \in {"ok", "error"}

\* The latest run repeated the merge before it: same serverConfig, same flag, on the
\* file that merge produced.
Repeated ==
  /\ outcome = "ok" /\ prevOutcome = "ok"
  /\ sameIncoming /\ prevDedup = mergeIdenticalUsers

\* C1 (idempotence): when a successful mergeKubeconfig is repeated with the same
\* serverConfig on the localConfig it produced, the second call leaves Clusters,
\* AuthInfos and Contexts as they were, whatever the visiting order of the maps.
C1_Idempotent == Repeated => localConfig = before

ManagedAuthName(n) ==
  IF mergeIdenticalUsers
  THEN dedupAuthName(generateAuthInfoKey(serverConfig.AuthInfos[n]))
  ELSE managedNameFunc(n)

HasToken(a, t) == ~a.AuthProvider.nil /\ t \in DOMAIN a.AuthProvider.Config

\* An AuthInfo without its volatile fields.
Stable(a) == [a EXCEPT !.AuthProvider.Config = filterAuthProviderConfig(@)]

\* The incoming users stored under the managed name m that have the stable fields of
\* the local credential at m.
SameIdentity(m) ==
  {n \in DOMAIN serverConfig.AuthInfos :
     ManagedAuthName(n) = m /\ authInfoEqual(serverConfig.AuthInfos[n], before.AuthInfos[m])}

\* C3 (token preservation): when the local config holds a managed credential with an
\* id-token and an incoming credential stored under the same managed name has the same
\* stable fields, then after mergeKubeconfig the credential is still there, has the
\* local id-token (and the local refresh-token when there was one), and its stable
\* fields are those of an incoming credential stored under that name. Both modes.
C3_TokenPreserved ==
  Merged =>
    \A m \in ManagedKeys(before.AuthInfos) :
      (HasToken(before.AuthInfos[m], "id-token") /\ SameIdentity(m) # {}) =>
        /\ m \in DOMAIN localConfig.AuthInfos
        /\ HasToken(localConfig.AuthInfos[m], "id-token")
        /\ localConfig.AuthInfos[m].AuthProvider.Config["id-token"]
             = before.AuthInfos[m].AuthProvider.Config["id-token"]
        /\ HasToken(before.AuthInfos[m], "refresh-token") =>
             /\ HasToken(localConfig.AuthInfos[m], "refresh-token")
             /\ localConfig.AuthInfos[m].AuthProvider.Config["refresh-token"]
                  = before.AuthInfos[m].AuthProvider.Config["refresh-token"]
        /\ \E n \in DOMAIN serverConfig.AuthInfos :
             /\ ManagedAuthName(n) = m
             /\ Stable(localConfig.AuthInfos[m]) = Stable(serverConfig.AuthInfos[n])

\* A dedup merge met a local credential with id-token and refresh-token and incoming
\* credentials of the same identity, none of them carrying the local id-token, and
\* one of them with a token of its own.
C3_Witness ==
  /\ outcome = "ok" /\ mergeIdenticalUsers
  /\ \E m \in ManagedKeys(before.AuthInfos) :
       /\ HasToken(before.AuthInfos[m], "id-token")
       /\ HasToken(before.AuthInfos[m], "refresh-token")
       /\ SameIdentity(m) # {}
       /\ \A n \in SameIdentity(m) :
            Get(serverConfig.AuthInfos[n].AuthProvider.Config, "id-token")
              # before.AuthInfos[m].AuthProvider.Config["id-token"]
       /\ \E n \in SameIdentity(m) : HasToken(serverConfig.AuthInfos[n], "id-token")

\* The scopes of a comma-separated extra-scopes value.
ScopeSet(v) == {v[i] : i \in DOMAIN v} \ {","}

\* Two credentials with the same stable fields, extra-scopes compared as a set.
SameStableFields(a, b) ==
  /\ a.ClientCertificateData = b.ClientCertificateData
  /\ a.ClientKeyData = b.ClientKeyData
  /\ a.AuthProvider.nil = b.AuthProvider.nil
  /\ a.AuthProvider.Name = b.AuthProvider.Name
  /\ LET ca == filterAuthProviderConfig(a.AuthProvider.Config)
         cb == filterAuthProviderConfig(b.AuthProvider.Config)
     IN  /\ DOMAIN ca = DOMAIN cb
         /\ \A k \in (DOMAIN ca) \ {"extra-scopes"} : ca[k] = cb[k]
         /\ ScopeSet(Get(ca, "extra-scopes")) = ScopeSet(Get(cb, "extra-scopes"))

\* The managed credential names the stored profiles of the incoming user n refer to.
ProfileRefs(n) ==
  {localConfig.Contexts[c].AuthInfo :
     c \in {d \in DOMAIN serverConfig.Contexts \cap DOMAIN localConfig.Contexts :
              serverConfig.Contexts[d].AuthInfo = n}}

\* C4 (dedup collapsing): two incoming credentials with the same stable fields,
\* different id-tokens and a different order of extra-scopes, each referenced by its
\* own profile, are stored by a dedup merge as one managed credential, and both
\* profiles refer to it.
C4_DedupCollapses ==
  (outcome = "ok" /\ mergeIdenticalUsers) =>
    \A n1, n2 \in DOMAIN serverConfig.AuthInfos :
      LET a1 == serverConfig.AuthInfos[n1]
          a2 == serverConfig.AuthInfos[n2]
      IN  ( /\ n1 # n2
            /\ SameStableFields(a1, a2)
            /\ Get(a1.AuthProvider.Config, "extra-scopes")
                 # Get(a2.AuthProvider.Config, "extra-scopes")
            /\ Get(a1.AuthProvider.Config, "id-token") # Get(a2.AuthProvider.Config, "id-token")
            /\ ProfileRefs(n1) # {} /\ ProfileRefs(n2) # {} )
          => \E m \in ManagedKeys(localConfig.AuthInfos) :
               ProfileRefs(n1) = {m} /\ ProfileRefs(n2) = {m}

\* C5 (endpoint pruning): after a successful mergeKubeconfig the local Clusters map has
\* no key "<prefix>:n" with n not an incoming cluster name, and every incoming cluster n
\* is present under "<prefix>:n".
C5_ClustersPruned ==
  outcome = "ok" =>
    /\ \A k \in ManagedKeys(localConfig.Clusters) :
         unmanagedNameFunc(k) \in DOMAIN serverConfig.Clusters
    /\ \A n \in DOMAIN serverConfig.Clusters :
         managedNameFunc(n) \in DOMAIN localConfig.Clusters

\* A successful merge removed the managed cluster "<prefix>:gone", which no incoming
\* record declares, and stored an incoming cluster.
C5_Witness ==
  /\ outcome = "ok"
  /\ managedNameFunc(<<"gone">>) \in DOMAIN before.Clusters
  /\ managedNameFunc(<<"gone">>) \notin DOMAIN localConfig.Clusters
  /\ <<"gone">> \notin DOMAIN serverConfig.Clusters
  /\ DOMAIN serverConfig.Clusters # {}

\* A local context that refers to a managed cluster or a managed user.
ManagedLooking(ctx) == isManaged(ctx.Cluster) \/ isManaged(ctx.AuthInfo)

\* C6 (profile pruning): after a successful mergeKubeconfig every local context whose
\* Cluster or AuthInfo reference starts with "<prefix>:" and whose name is not the
\* name of an incoming context has been deleted.
C6_ProfilesPruned ==
  outcome = "ok" =>
    \A c \in DOMAIN before.Contexts :
      (ManagedLooking(before.Contexts[c]) /\ c \notin DOMAIN serverConfig.Contexts)
        => c \notin DOMAIN localConfig.Contexts

\* The incoming contexts that name a user no incoming record declares.
DanglingContexts ==
  {c \in DOMAIN serverConfig.Contexts :
     serverConfig.Contexts[c].AuthInfo \notin DOMAIN serverConfig.AuthInfos}

IncomingKeys == {generateAuthInfoKey(serverConfig.AuthInfos[n]) : n \in DOMAIN serverConfig.AuthInfos}

\* C8 (dedup cardinality): after a successful mergeKubeconfig with mergeIdenticalUsers
\* the number of local AuthInfos under "<prefix>:" is at most the number of distinct
\* generateAuthInfoKey values of the incoming credentials, whatever local held before.
C8_DedupCardinality ==
  (outcome = "ok" /\ mergeIdenticalUsers) =>
    Cardinality(ManagedKeys(localConfig.AuthInfos)) <= Cardinality(IncomingKeys)

\* A successful dedup merge of two incoming users with one key, on a file that held
\* more managed credentials than that, left by syncs of both modes.
C8_Witness ==
  /\ outcome = "ok" /\ mergeIdenticalUsers
  /\ Cardinality(DOMAIN serverConfig.AuthInfos) > Cardinality(IncomingKeys)
  /\ Cardinality(ManagedKeys(before.AuthInfos)) > Cardinality(IncomingKeys)
  /\ managedNameFunc(<<"u">>) \in DOMAIN before.AuthInfos
  /\ \E k \in IncomingKeys : dedupAuthName(k) \in DOMAIN before.AuthInfos

\* The keys of a map that a call inserted, overwrote with another value, or deleted.
Written(old, new) ==
  {k \in (DOMAIN old) \cup (DOMAIN new) :
     k \notin DOMAIN old \/ k \notin DOMAIN new \/ old[k] # new[k]}

\* C9 (write set): every key that mergeKubeconfig inserts, overwrites or deletes in the
\* local Clusters and AuthInfos maps starts with "<prefix>:", and every context it
\* inserts or overwrites refers to a cluster and to a user that start with "<prefix>:".
C9_WriteSet ==
  Merged =>
    /\ \A k \in Written(before.Clusters, localConfig.Clusters) : isManaged(k)
    /\ \A k \in Written(before.AuthInfos, localConfig.AuthInfos) : isManaged(k)
    /\ \A c \in Written(before.Contexts, localConfig.Contexts) \cap DOMAIN localConfig.Contexts :
         /\ isManaged(localConfig.Contexts[c].Cluster)
         /\ isManaged(localConfig.Contexts[c].AuthInfo)

\* A merge inserted a cluster, deleted a cluster, overwrote a credential, deleted a
\* credential, inserted a context and overwrote a foreign context.
C9_Witness ==
  /\ Merged
  /\ DOMAIN localConfig.Clusters \ DOMAIN before.Clusters # {}
  /\ DOMAIN before.Clusters \ DOMAIN localConfig.Clusters # {}
  /\ DOMAIN before.AuthInfos \ DOMAIN localConfig.AuthInfos # {}
  /\ \E k \in DOMAIN before.AuthInfos \cap DOMAIN localConfig.AuthInfos :
       before.AuthInfos[k] # localConfig.AuthInfos[k]
  /\ DOMAIN localConfig.Contexts \ DOMAIN before.Contexts # {}
  /\ \E c \in DOMAIN before.Contexts \cap DOMAIN localConfig.Contexts :
       before.Contexts[c] # localConfig.Contexts[c]

\* C10 (profile upsert): after a successful mergeKubeconfig, for every incoming context
\* named n (any string) local Contexts has the key n with Cluster = "<prefix>:" + the
\* incoming cluster name, AuthInfo = the managed name of the incoming user, and the
\* incoming namespace.
C10_ProfilesStored ==
  outcome = "ok" =>
    \A n \in DOMAIN serverConfig.Contexts :
      /\ n \in DOMAIN localConfig.Contexts
      /\ localConfig.Contexts[n].Cluster = managedNameFunc(serverConfig.Contexts[n].Cluster)
      /\ localConfig.Contexts[n].AuthInfo =
           (IF mergeIdenticalUsers
            THEN ManagedAuthName(serverConfig.Contexts[n].AuthInfo)
            ELSE managedNameFunc(serverConfig.Contexts[n].AuthInfo))
      /\ localConfig.Contexts[n].Namespace = serverConfig.Contexts[n].Namespace

Compared == phase = "return" /\ authA \in Credentials /\ authB \in Credentials

\* A credential with an auth provider (the legacy, parameter-based kind).
ParameterBased(a) == ~a.AuthProvider.nil

\* C11 (the key ignores volatile fields): two parameter-based credentials whose
\* auth-provider configs are equal except for the value or presence of id-token and
\* refresh-token get the same generateAuthInfoKey and the same managed dedup name.
C11_KeyIgnoresTokens ==
  ( /\ Compared
    /\ ParameterBased(authA) /\ ParameterBased(authB)
    /\ filterAuthProviderConfig(authA.AuthProvider.Config)
         = filterAuthProviderConfig(authB.AuthProvider.Config) )
  => /\ keyA = keyB
     /\ dedupAuthName(keyA) = dedupAuthName(keyB)

\* The keys were computed for two credentials with the same five parameters, one with
\* id-token and refresh-token, the other with a different id-token and no refresh-token.
C11_Witness ==
  /\ Compared
  /\ ParameterBased(authA) /\ ParameterBased(authB)
  /\ filterAuthProviderConfig(authA.AuthProvider.Config)
       = filterAuthProviderConfig(authB.AuthProvider.Config)
  /\ Get(authA.AuthProvider.Config, "client-id") # <<>>
  /\ HasToken(authA, "id-token") /\ HasToken(authB, "id-token")
  /\ authA.AuthProvider.Config["id-token"] # authB.AuthProvider.Config["id-token"]
  /\ HasToken(authA, "refresh-token") /\ ~HasToken(authB, "refresh-token")
  /\ keyA = keyB

\* The five stable parameters of an auth-provider config.
StableParameters ==
  {"idp-issuer-url", "client-id", "client-secret", "auth-request-extra-params", "extra-scopes"}

\* C12 (the key is the five stable parameters): two parameter-based credentials get
\* the same generateAuthInfoKey, and the same managed dedup name, exactly when they
\* agree on issuer URL, client id, client secret, extra auth-request parameters and
\* extra scopes.
C12_KeyIsFiveFields ==
  (Compared /\ ParameterBased(authA) /\ ParameterBased(authB)) =>
    LET agree == \A k \in StableParameters :
                   Get(authA.AuthProvider.Config, k) = Get(authB.AuthProvider.Config, k)
    IN  /\ (keyA = keyB) <=> agree
        /\ (dedupAuthName(keyA) = dedupAuthName(keyB)) <=> agree

\* A credential with neither an auth provider nor an exec plugin: client certificate
\* and key bytes are all it has.
CertificateBased(a) == a.AuthProvider.nil /\ a.Exec.nil

\* C13 (certificate keys): the key of a certificate-based credential starts with the
\* tag "cert:"; two certificate-based credentials get the same key exactly when
\* their certificate bytes followed by their key bytes are the same bytes; and the key
\* of a certificate-based credential differs from that of any parameter-based one.
C13_CertKey ==
  Compared =>
    /\ CertificateBased(authA) =>
          /\ HasPrefix(keyA, <<"cert:">>)
          /\ Len(keyA) > 1
    /\ (CertificateBased(authA) /\ CertificateBased(authB)) =>
          ((keyA = keyB) <=>
             (authA.ClientCertificateData \o authA.ClientKeyData
                = authB.ClientCertificateData \o authB.ClientKeyData))
    /\ (CertificateBased(authA) /\ ParameterBased(authB)) => keyA # keyB

\* The keys were computed for two certificate-based credentials with the same
\* certificate and different key bytes.
C13_Witness ==
  /\ Compared
  /\ CertificateBased(authA) /\ CertificateBased(authB)
  /\ authA.ClientCertificateData = authB.ClientCertificateData
  /\ authA.ClientCertificateData # <<>>
  /\ authA.ClientKeyData # authB.ClientKeyData
  /\ authA.ClientKeyData # <<>> /\ authB.ClientKeyData # <<>>
  /\ keyA # keyB

\* A provider config without the entries "id-token" and "refresh-token".
WithoutTokens(config) ==
  [k \in {x \in DOMAIN config : x # "id-token" /\ x # "refresh-token"} |-> config[k]]

\* Credentials that differ at most in id-token and refresh-token.
SameButTokens(a, b) ==
  /\ a.ClientCertificateData = b.ClientCertificateData
  /\ a.ClientKeyData = b.ClientKeyData
  /\ a.Exec = b.Exec
  /\ a.AuthProvider.nil = b.AuthProvider.nil
  /\ a.AuthProvider.Name = b.AuthProvider.Name
  /\ WithoutTokens(a.AuthProvider.Config) = WithoutTokens(b.AuthProvider.Config)

C15_ScopesAsSets ==
  ( /\ Compared
    /\ ParameterBased(authA) /\ ParameterBased(authB)
    /\ SameStableFields(authA, authB) )
  => equal

\* C15, its consequence for the merge: in non-dedup mode an incoming credential that
\* differs from the local entry of its managed name only in the order of extra-scopes
\* (and in tokens) leaves the local entry as it was.
C15_NoRewrite ==
  (outcome = "ok" /\ ~mergeIdenticalUsers) =>
    \A n \in DOMAIN serverConfig.AuthInfos :
      LET m == managedNameFunc(n) IN
      (m \in DOMAIN before.AuthInfos
         /\ SameStableFields(before.AuthInfos[m], serverConfig.AuthInfos[n]))
        => localConfig.AuthInfos[m] = before.AuthInfos[m]

\* A credential obtained by running an external command.
ExecBased(a) == ~a.Exec.nil

\* C16 (exec-based equality): two exec credentials with the same API version, command
\* and argument list are equivalent under authInfoEqual, and two that differ in the
\* command or in an argument are not.
C16_ExecEqual ==
  (Compared /\ ExecBased(authA) /\ ExecBased(authB)) =>
    /\ ( /\ authA.Exec.APIVersion = authB.Exec.APIVersion
         /\ authA.Exec.Command = authB.Exec.Command
         /\ authA.Exec.Args = authB.Exec.Args ) => equal
    /\ ( \/ authA.Exec.Command # authB.Exec.Command
         \/ authA.Exec.Args # authB.Exec.Args ) => ~equal

\* The values the argument list gives to a flag.
FlagValues(execArgs, flag) ==
  {Tail(execArgs[i]) : i \in {j \in DOMAIN execArgs : Head(execArgs[j]) = flag}}

\* The flags that carry the stable parameters of an exec credential.
StableFlags ==
  {"--oidc-issuer-url=", "--oidc-client-id=", "--oidc-client-secret=",
   "--oidc-auth-request-extra-params=", "--oidc-extra-scope="}

\* Two exec credentials with the same command, API version and stable parameters.
SameExecIdentity(a, b) ==
  /\ a.Exec.Command = b.Exec.Command
  /\ a.Exec.APIVersion = b.Exec.APIVersion
  /\ \A f \in StableFlags : FlagValues(a.Exec.Args, f) = FlagValues(b.Exec.Args, f)

\* C17 (exec-based key): two exec credentials get the same generateAuthInfoKey when
\* they have the same command, API version and stable parameters in their argument
\* lists, whatever the order of the flags and whatever other arguments there are, and
\* different keys when command and API version agree and a stable parameter differs.
C17_ExecKey ==
  (Compared /\ ExecBased(authA) /\ ExecBased(authB)) =>
    /\ SameExecIdentity(authA, authB) => keyA = keyB
    /\ ( /\ authA.Exec.Command = authB.Exec.Command
         /\ authA.Exec.APIVersion = authB.Exec.APIVersion
         /\ ~SameExecIdentity(authA, authB) ) => keyA # keyB

\* ----- single calls of buildIncomingKubeconfig (SpecBuild)

\* buildIncomingKubeconfig has returned for the list items.
Built == phase = "return" /\ items \in BuildLists

\* The places <<i, j>> of the list where a sub-record of the kind is declared:
\* record i, entry j of its Contexts, AuthInfo or Clusters.
Declarations(kind) ==
  UNION { { <<i, j>> : j \in DOMAIN items[i][kind] } : i \in DOMAIN items }

NameAt(kind, d) == items[d[1]][kind][d[2]].Name

\* The latest declaration of the name: the last record of the list that declares
\* it, and the last entry of that name in the record.
Latest(kind, name) ==
  CHOOSE d \in Declarations(kind) :
    /\ NameAt(kind, d) = name
    /\ \A e \in Declarations(kind) :
         NameAt(kind, e) = name => (e[1] < d[1] \/ (e[1] = d[1] /\ e[2] <= d[2]))

\* C18 (normalizer, last write wins): buildIncomingKubeconfig returns three maps
\* whose keys are exactly the names of the clusters, users and contexts declared by
\* the records of the list, unprefixed, and each name holds the value declared by the
\* latest record of the list that declares it; a record without sub-records adds
\* nothing.
C18_LastWriteWins ==
  Built =>
    /\ DOMAIN kubeconfig.Contexts = {NameAt("Contexts", d) : d \in Declarations("Contexts")}
    /\ DOMAIN kubeconfig.AuthInfos = {NameAt("AuthInfo", d) : d \in Declarations("AuthInfo")}
    /\ DOMAIN kubeconfig.Clusters = {NameAt("Clusters", d) : d \in Declarations("Clusters")}
    /\ \A n \in DOMAIN kubeconfig.Contexts :
         LET d == Latest("Contexts", n)
             c == items[d[1]].Contexts[d[2]].Context
         IN  /\ kubeconfig.Contexts[n].Cluster = c.Cluster
             /\ kubeconfig.Contexts[n].AuthInfo = c.AuthInfo
             /\ kubeconfig.Contexts[n].Namespace = c.Namespace
    /\ \A n \in DOMAIN kubeconfig.AuthInfos :
         LET d == Latest("AuthInfo", n)
             a == items[d[1]].AuthInfo[d[2]].AuthInfo
         IN  /\ kubeconfig.AuthInfos[n].ClientCertificateData = a.ClientCertificateData
             /\ kubeconfig.AuthInfos[n].ClientKeyData = a.ClientKeyData
             /\ kubeconfig.AuthInfos[n].AuthProvider.Name = a.AuthProvider.Name
             /\ kubeconfig.AuthInfos[n].AuthProvider.Config = a.AuthProvider.Config
    /\ \A n \in DOMAIN kubeconfig.Clusters :
         LET d == Latest("Clusters", n)
             c == items[d[1]].Clusters[d[2]].Cluster
         IN  /\ kubeconfig.Clusters[n].Server = c.Server
             /\ kubeconfig.Clusters[n].CertificateAuthorityData = c.CertificateAuthorityData
             /\ ("labels" \in DOMAIN kubeconfig.Clusters[n].Extensions)
                  <=> (DOMAIN items[d[1]].Labels # {})
    /\ (\A i \in DOMAIN items : items[i] = EmptyRecord) => kubeconfig = NewConfig

\* The list holds two records that declare the user u with different credentials,
\* the cluster a with different servers and the context x with different
\* namespaces, and the maps hold the values of the later record.
C18_Witness ==
  /\ Built
  /\ Len(items) >= 2
  /\ \E i, j \in DOMAIN items :
       /\ i < j
       /\ items[i] # EmptyRecord /\ items[j] # EmptyRecord
       /\ items[i].AuthInfo # <<>> /\ items[j].AuthInfo # <<>>
       /\ items[i].AuthInfo[1].Name = <<"u">> /\ items[j].AuthInfo[1].Name = <<"u">>
       /\ items[i].AuthInfo[1].AuthInfo # items[j].AuthInfo[1].AuthInfo
       /\ items[i].Clusters[1].Name = items[j].Clusters[1].Name
       /\ items[i].Clusters[1].Cluster.Server # items[j].Clusters[1].Cluster.Server
       /\ items[i].Contexts[1].Name = items[j].Contexts[1].Name
       /\ items[i].Contexts[1].Context.Namespace # items[j].Contexts[1].Context.Namespace
       /\ kubeconfig.Clusters[<<"a">>].Server = items[j].Clusters[1].Cluster.Server
       /\ kubeconfig.Contexts[<<"x">>].Namespace = items[j].Contexts[1].Context.Namespace

\* ----- single calls of buildKubeloginArgs (SpecKubelogin)

\* buildKubeloginArgs has returned for cfg, extra and cacheDir.
Synthesized == phase = "return" /\ cfg \in KubeloginConfigs

\* The places of a parameter value where a list entry starts and ends: an entry
\* runs from the start or from behind a "," to the next "," or to the end.
EntryBounds(s) ==
  {b \in (1..(Len(s) + 1)) \X (0..Len(s)) :
     /\ b[1] <= b[2] + 1
     /\ (b[1] = 1 \/ s[b[1] - 1] = ",")
     /\ (b[2] = Len(s) \/ s[b[2] + 1] = ",")
     /\ \A i \in b[1]..b[2] : s[i] # ","}

\* The values <value> of the entries connector_id=<value> of a parameter value.
ConnectorValues(s) ==
  {SubSeq(s, b[1] + 2, b[2]) :
     b \in {e \in EntryBounds(s) :
              e[2] >= e[1] + 1 /\ s[e[1]] = "connector_id" /\ s[e[1] + 1] = "="}}

Contains(list, arg) == \E i \in DOMAIN list : list[i] = arg

\* C19 (connector-scoped cache path): the argument vector contains
\* --token-cache-dir=<cacheBaseDir>/<value> when auth-request-extra-params has an
\* entry connector_id=<value>, wherever it stands in the list, and contains
\* --token-cache-dir=<cacheBaseDir> when it has no such entry.
C19_ConnectorCacheDir ==
  Synthesized =>
    LET values == ConnectorValues(Get(cfg, "auth-request-extra-params")) IN
    IF values = {}
    THEN Contains(args, <<"--token-cache-dir=">> \o cacheDir)
    ELSE \A v \in values : Contains(args, <<"--token-cache-dir=">> \o cacheDir \o <<"/">> \o v)

\* The arguments were built for extra params whose connector_id entry stands behind
\* another entry, and hold the cache directory of that connector.
C19_Witness ==
  /\ Synthesized
  /\ \E v \in ConnectorValues(Get(cfg, "auth-request-extra-params")) :
       /\ v # <<>>
       /\ Contains(args, <<"--token-cache-dir=">> \o cacheDir \o <<"/">> \o v)
  /\ cfg["auth-request-extra-params"][1] # "connector_id"
  /\ extra # <<>>

\* The --oidc-extra-scope arguments of the vector, in the order they stand in it.
ScopeArgs == SelectSeq(args, LAMBDA a : Head(a) = "--oidc-extra-scope=")

\* The place of an entry among the entries of a parameter value, from 1.
EntryRank(s, b) == Cardinality({e \in EntryBounds(s) : e[1] <= b[1]})

\* C20 (scope flag expansion): for an extra-scopes value of k comma-separated
\* entries the argument vector holds exactly k --oidc-extra-scope flags, the i-th
\* of them carrying the i-th entry with the blanks around it removed; without an
\* extra-scopes value it holds none.
C20_ScopeFlags ==
  Synthesized =>
    LET s == Get(cfg, "extra-scopes") IN
    IF s = <<>>
    THEN ScopeArgs = <<>>
    ELSE /\ Len(ScopeArgs) = Cardinality(EntryBounds(s))
         /\ \A b \in EntryBounds(s) :
              ScopeArgs[EntryRank(s, b)]
                = <<"--oidc-extra-scope=">> \o TrimSpace(SubSeq(s, b[1], b[2]))

\* The arguments were built for an extra-scopes value of three entries, two of them
\* with blanks around them, and hold three scope flags without blanks.
C20_Witness ==
  /\ Synthesized
  /\ Cardinality(EntryBounds(Get(cfg, "extra-scopes"))) = 3
  /\ \E i \in DOMAIN cfg["extra-scopes"] : cfg["extra-scopes"][i] = " "
  /\ Len(ScopeArgs) = 3
  /\ \A i \in 1..3 : \A j \in DOMAIN ScopeArgs[i] : ScopeArgs[i][j] # " "

\* The flags the synthesizer writes itself.
SynthesizedFlags ==
  {"--oidc-issuer-url=", "--oidc-client-id=", "--oidc-client-secret=",
   "--oidc-extra-scope=", "--oidc-auth-request-extra-params=", "--token-cache-dir="}

\* C21 (argument vector shape): the first argument is the subcommand get-token, the
\* last Len(extra) arguments are the caller's extra arguments, unmodified and in the
\* given order (also when one of them is a --token-cache-dir flag), and every
\* argument between the two is a synthesized flag.
C21_ArgsShape ==
  Synthesized =>
    /\ Len(args) >= 1 + Len(extra)
    /\ args[1] = <<"get-token">>
    /\ SubSeq(args, Len(args) - Len(extra) + 1, Len(args)) = extra
    /\ \A i \in 2..(Len(args) - Len(extra)) : Head(args[i]) \in SynthesizedFlags

\* The arguments were built with two extra arguments, the second a --token-cache-dir
\* flag, for a config that yields scope flags and a connector cache directory.
C21_Witness ==
  /\ Synthesized
  /\ Len(extra) = 2
  /\ Head(extra[2]) = "--token-cache-dir="
  /\ args[Len(args)] = extra[2]
  /\ Len(ScopeArgs) = 3
  /\ ConnectorValues(Get(cfg, "auth-request-extra-params")) # {}
  /\ Len(args) > 1 + Len(extra)

\* C22 (no side effect on the incoming configuration): after mergeKubeconfig, in either
\* mode and whether it returned an error or not, the maps of serverConfig and every
\* object they hold are as they were before the call, although localConfig may now
\* hold some of those objects.
C22_IncomingUntouched == Merged => serverAfter = serverConfig

\* A successful merge wrote the local id-token over an incoming credential that had
\* none or another one, and stored an incoming context under renamed references.
C22_Witness ==
  /\ outcome = "ok"
  /\ \E n \in DOMAIN serverConfig.AuthInfos :
       LET m == ManagedAuthName(n) IN
       /\ m \in DOMAIN before.AuthInfos /\ m \in DOMAIN localConfig.AuthInfos
       /\ HasToken(before.AuthInfos[m], "id-token")
       /\ HasToken(localConfig.AuthInfos[m], "id-token")
       /\ localConfig.AuthInfos[m] # serverConfig.AuthInfos[n]
       /\ Stable(localConfig.AuthInfos[m]) = Stable(serverConfig.AuthInfos[n])
  /\ \E x \in DOMAIN serverConfig.Contexts :
       /\ x \in DOMAIN localConfig.Contexts
       /\ localConfig.Contexts[x] # serverConfig.Contexts[x]

\* The value of the "labels" named extension of a cluster; <<"absent">> when it has none.
LabelsAnnotation(cluster) ==
  IF "labels" \in DOMAIN cluster.Extensions THEN cluster.Extensions["labels"]
  ELSE <<"absent">>

\* C23 (change-driven endpoint upsert): when the local config holds "<prefix>:n" and
\* its server URL, CA bytes and labels annotation equal those of the incoming cluster
\* n, mergeKubeconfig leaves the local cluster as it was, fields the incoming cluster
\* does not carry included; when one of the three differs (the labels alone, or
\* labels added or removed) the local entry becomes the incoming cluster.
C23_ChangeDrivenUpsert ==
  Merged =>
    \A n \in DOMAIN serverConfig.Clusters :
      LET m == managedNameFunc(n) IN
      m \in DOMAIN before.Clusters =>
        /\ m \in DOMAIN localConfig.Clusters
        /\ IF /\ before.Clusters[m].Server = serverConfig.Clusters[n].Server
              /\ before.Clusters[m].CertificateAuthorityData
                   = serverConfig.Clusters[n].CertificateAuthorityData
              /\ LabelsAnnotation(before.Clusters[m])
                   = LabelsAnnotation(serverConfig.Clusters[n])
           THEN localConfig.Clusters[m] = before.Clusters[m]
           ELSE localConfig.Clusters[m] = serverConfig.Clusters[n]

\* The local cluster agreed with the incoming one in URL, CA bytes and labels, carried
\* a TLS server name and an extension of its own, and is as it was after the merge.
C23_Witness ==
  /\ outcome = "ok"
  /\ \E n \in DOMAIN serverConfig.Clusters :
       LET m == managedNameFunc(n) IN
       /\ m \in DOMAIN before.Clusters /\ m \in DOMAIN localConfig.Clusters
       /\ before.Clusters[m].Server = serverConfig.Clusters[n].Server
       /\ before.Clusters[m].CertificateAuthorityData
            = serverConfig.Clusters[n].CertificateAuthorityData
       /\ "labels" \in DOMAIN serverConfig.Clusters[n].Extensions
       /\ LabelsAnnotation(before.Clusters[m]) = LabelsAnnotation(serverConfig.Clusters[n])
       /\ before.Clusters[m] # serverConfig.Clusters[n]
       /\ localConfig.Clusters[m].TLSServerName = "tls.local"
       /\ "note" \in DOMAIN localConfig.Clusters[m].Extensions

\* The value of token t in credential a; <<>> when a has none.
TokenOf(a, t) == IF HasToken(a, t) THEN a.AuthProvider.Config[t] ELSE <<>>

\* Credential r is credential incoming with the id-token and refresh-token of
\* credential local copied in.
TokensCopiedIn(r, incoming, local) ==
  /\ Stable(r) = Stable(incoming)
  /\ \A t \in {"id-token", "refresh-token"} :
       TokenOf(r, t) = IF HasToken(local, t) THEN TokenOf(local, t) ELSE TokenOf(incoming, t)

\* C24 (credential upsert without dedup): with mergeIdenticalUsers = false, incoming
\* credential n is stored as "<prefix>:n"; when the local config held that name with
\* a credential that authInfoEqual finds equivalent, the entry is unchanged; when the
\* two are not equivalent, the entry is the incoming credential with the local
\* id-token and refresh-token copied in; and after the pass no "<prefix>:m" credential
\* is left whose m is not the name of an incoming credential.
C24_UpsertByName ==
  (Merged /\ ~mergeIdenticalUsers) =>
    /\ \A n \in DOMAIN serverConfig.AuthInfos :
         LET m == managedNameFunc(n) IN
         /\ m \in DOMAIN localConfig.AuthInfos
         /\ m \in DOMAIN before.AuthInfos =>
              IF authInfoEqual(before.AuthInfos[m], serverConfig.AuthInfos[n])
              THEN localConfig.AuthInfos[m] = before.AuthInfos[m]
              ELSE TokensCopiedIn(localConfig.AuthInfos[m], serverConfig.AuthInfos[n],
                                  before.AuthInfos[m])
         /\ m \notin DOMAIN before.AuthInfos =>
              localConfig.AuthInfos[m] = serverConfig.AuthInfos[n]
    /\ \A k \in ManagedKeys(localConfig.AuthInfos) :
         unmanagedNameFunc(k) \in DOMAIN serverConfig.AuthInfos

\* A merge without dedup replaced a local credential that had an id-token by an
\* incoming credential that is not equivalent, so that the stored credential is the
\* incoming one plus the local token, and deleted another managed credential.
C24_Witness ==
  /\ outcome = "ok" /\ ~mergeIdenticalUsers
  /\ \E n \in DOMAIN serverConfig.AuthInfos :
       LET m == managedNameFunc(n) IN
       /\ m \in DOMAIN before.AuthInfos
       /\ HasToken(before.AuthInfos[m], "id-token")
       /\ ~authInfoEqual(before.AuthInfos[m], serverConfig.AuthInfos[n])
       /\ localConfig.AuthInfos[m] # serverConfig.AuthInfos[n]
  /\ ManagedKeys(before.AuthInfos) \ DOMAIN localConfig.AuthInfos # {}

\* The incoming contexts that name a user serverConfig does not hold.
Offending == {x \in DOMAIN serverConfig.Contexts :
                serverConfig.Contexts[x].AuthInfo \notin DOMAIN serverConfig.AuthInfos}

\* Incoming context x as the context loop stores it in dedup mode.
UpsertedContext(x) ==
  [serverConfig.Contexts[x] EXCEPT
     !.Cluster = managedNameFunc(serverConfig.Contexts[x].Cluster),
     !.AuthInfo = dedupAuthName(generateAuthInfoKey(serverConfig.AuthInfos[@]))]

\* C25 (a failed pass leaves a partial mutation without deletions): when
\* mergeKubeconfig returns the error for a context that names a missing user, no key
\* of the local Clusters, AuthInfos or Contexts has been deleted; every incoming
\* cluster and every incoming credential has been upserted; an offending context has
\* not been stored; and every other context is either as it was or an incoming
\* context upserted before the loop stopped.
C25_PartialWithoutDeletion ==
  outcome = "error" =>
    /\ DOMAIN before.Clusters \subseteq DOMAIN localConfig.Clusters
    /\ DOMAIN before.AuthInfos \subseteq DOMAIN localConfig.AuthInfos
    /\ DOMAIN before.Contexts \subseteq DOMAIN localConfig.Contexts
    /\ \A n \in DOMAIN serverConfig.Clusters :
         LET m == managedNameFunc(n) IN
         /\ m \in DOMAIN localConfig.Clusters
         /\ localConfig.Clusters[m].Server = serverConfig.Clusters[n].Server
         /\ localConfig.Clusters[m].CertificateAuthorityData
              = serverConfig.Clusters[n].CertificateAuthorityData
         /\ LabelsAnnotation(localConfig.Clusters[m])
              = LabelsAnnotation(serverConfig.Clusters[n])
    /\ \A n \in DOMAIN serverConfig.AuthInfos :
         LET m == dedupAuthName(generateAuthInfoKey(serverConfig.AuthInfos[n])) IN
         /\ m \in DOMAIN localConfig.AuthInfos
         /\ \E n2 \in DOMAIN serverConfig.AuthInfos :
              Stable(localConfig.AuthInfos[m]) = Stable(serverConfig.AuthInfos[n2])
    /\ \A k \in DOMAIN localConfig.AuthInfos \ DOMAIN before.AuthInfos :
         \E n \in DOMAIN serverConfig.AuthInfos :
           k = dedupAuthName(generateAuthInfoKey(serverConfig.AuthInfos[n]))
    /\ Offending # {}
    /\ \E x \in Offending :
         IF x \in DOMAIN before.Contexts
         THEN localConfig.Contexts[x] = before.Contexts[x]
         ELSE x \notin DOMAIN localConfig.Contexts
    /\ \A x \in DOMAIN localConfig.Contexts :
         \/ x \in DOMAIN before.Contexts /\ localConfig.Contexts[x] = before.Contexts[x]
         \/ /\ x \in DOMAIN serverConfig.Contexts \ Offending
            /\ localConfig.Contexts[x] = UpsertedContext(x)

\* A merge failed after it had stored an incoming context, and the local config still
\* holds a managed cluster and a managed credential that the deletion loops would
\* have removed.
C25_Witness ==
  /\ outcome = "error"
  /\ \E x \in DOMAIN serverConfig.Contexts \ Offending :
       /\ x \in DOMAIN localConfig.Contexts
       /\ localConfig.Contexts[x] = UpsertedContext(x)
       /\ x \in DOMAIN before.Contexts => before.Contexts[x] # localConfig.Contexts[x]
  /\ \E k \in ManagedKeys(localConfig.Clusters) :
       unmanagedNameFunc(k) \notin DOMAIN serverConfig.Clusters
  /\ \E k \in ManagedKeys(localConfig.AuthInfos) :
       \A n \in DOMAIN serverConfig.AuthInfos :
         k # dedupAuthName(generateAuthInfoKey(serverConfig.AuthInfos[n]))

\* C26 (ordering of runSync): a step of the command changes the kubeconfig file only
\* when records were fetched, the file was loaded, buildIncomingKubeconfig produced
\* serverConfig from them, and mergeKubeconfig turned the loaded config into
\* localConfig without an error; the steps in which the fetch, the load or the merge
\* fails leave the file as it was; and the step that returns for zero records
\* succeeds with the file unchanged and nothing loaded or merged.
C26_WriteLast ==
  [][ /\ kubeconfigFile' # kubeconfigFile =>
           /\ items # <<>>
           /\ serverConfig = buildIncomingKubeconfig(items)
           /\ before = kubeconfigFile
           /\ \E authOrder \in Orders(DOMAIN serverConfig.AuthInfos),
                 ctxOrder \in Orders(DOMAIN serverConfig.Contexts) :
                mergeKubeconfig(before, serverConfig, mergeIdenticalUsers,
                                authOrder, ctxOrder)
                  = [config |-> localConfig, err |-> FALSE]
      /\ outcome' \in {"fetch failed", "load failed", "error", "nothing"} =>
           kubeconfigFile' = kubeconfigFile
      /\ (outcome' = "nothing" /\ outcome # "nothing") =>
           /\ items' = <<>>
           /\ localConfig' = NewConfig /\ serverConfig' = NewConfig
    ]_vars

\* A run on a file with managed entries ended with the merge error: the loaded config
\* was changed and the file was not.
C26_Witness ==
  /\ phase = "done" /\ outcome = "error"
  /\ ManagedKeys(kubeconfigFile.AuthInfos) # {}
  /\ localConfig # before
  /\ kubeconfigFile = before

\* C27 (order independence): for the local and incoming configs of a successful merge,
\* the local config mergeKubeconfig produces is the same for every order in which
\* the incoming AuthInfos and Contexts maps are visited; in dedup mode this includes
\* incoming credentials that share a key and differ in tokens or in fields outside
\* the key.
C27_OrderIndependent ==
  outcome = "ok" =>
    \A authOrder \in Orders(DOMAIN serverConfig.AuthInfos),
       ctxOrder \in Orders(DOMAIN serverConfig.Contexts) :
      mergeKubeconfig(before, serverConfig, mergeIdenticalUsers, authOrder, ctxOrder).config
        = localConfig

\* C28 (referential integrity): after a successful merge, in either mode, the context
\* the local config holds for an incoming context names a cluster that is a key of
\* the local Clusters and a user that is a key of the local AuthInfos, also when the
\* incoming context names a cluster or a user that no incoming record declares.
C28_ReferentialIntegrity ==
  outcome = "ok" =>
    \A x \in DOMAIN serverConfig.Contexts :
      x \in DOMAIN localConfig.Contexts =>
        /\ localConfig.Contexts[x].Cluster \in DOMAIN localConfig.Clusters
        /\ localConfig.Contexts[x].AuthInfo \in DOMAIN localConfig.AuthInfos

\* An incoming user of a remote record that configures no auth provider and carries
\* a client certificate.
CertificateUser(n) ==
  /\ serverConfig.AuthInfos[n].AuthProvider.Name = ""
  /\ DOMAIN serverConfig.AuthInfos[n].AuthProvider.Config = {}
  /\ serverConfig.AuthInfos[n].ClientCertificateData # <<>>

\* C29 (certificate credentials stay distinct): when two incoming users built by
\* buildIncomingKubeconfig are certificate users with different certificate or key
\* bytes, a successful mergeKubeconfig with mergeIdenticalUsers = true stores them
\* under two different managed names, and each context references the managed
\* credential that carries the certificate of the context's own user.
C29_CertificatesDistinct ==
  (outcome = "ok" /\ mergeIdenticalUsers) =>
    /\ \A n1, n2 \in DOMAIN serverConfig.AuthInfos :
         ( /\ CertificateUser(n1) /\ CertificateUser(n2)
           /\ \/ serverConfig.AuthInfos[n1].ClientCertificateData
                   # serverConfig.AuthInfos[n2].ClientCertificateData
              \/ serverConfig.AuthInfos[n1].ClientKeyData
                   # serverConfig.AuthInfos[n2].ClientKeyData )
         => ManagedAuthName(n1) # ManagedAuthName(n2)
    /\ \A x \in DOMAIN serverConfig.Contexts :
         LET n == serverConfig.Contexts[x].AuthInfo IN
         (x \in DOMAIN localConfig.Contexts /\ CertificateUser(n)) =>
           LET m == localConfig.Contexts[x].AuthInfo IN
           /\ m \in DOMAIN localConfig.AuthInfos
           /\ localConfig.AuthInfos[m].ClientCertificateData
                = serverConfig.AuthInfos[n].ClientCertificateData
           /\ localConfig.AuthInfos[m].ClientKeyData
                = serverConfig.AuthInfos[n].ClientKeyData

\* The latest run and the run before it both succeeded, on the same serverConfig, with
\* different values of mergeIdenticalUsers.
Switched ==
  /\ outcome = "ok" /\ prevOutcome = "ok"
  /\ sameIncoming /\ prevDedup # mergeIdenticalUsers

\* A managed name of the form "<prefix>:auth-<hash>".
HashNamed(k) == HasPrefix(k, prefix \o <<":", "auth-">>)

\* C30 (no residue after a switch of the dedup policy): when a successful pass in one
\* mode is followed by a successful pass in the other mode on the same incoming
\* config, the managed credentials of the local config are named exactly as those a
\* pass of the second mode creates on an empty local config, and are the credentials
\* such a pass creates for one of its visiting orders; no "<prefix>:auth-<hash>"
\* name is left without dedup, no "<prefix>:<remoteName>" name is left with dedup; and
\* every stored incoming context references the second mode's name of its user.
C30_NoResidue ==
  Switched =>
    /\ \A authOrder \in Orders(DOMAIN serverConfig.AuthInfos),
          ctxOrder \in Orders(DOMAIN serverConfig.Contexts) :
         ManagedKeys(localConfig.AuthInfos)
           = ManagedKeys(mergeKubeconfig(NewConfig, serverConfig, mergeIdenticalUsers,
                                         authOrder, ctxOrder).config.AuthInfos)
    /\ \E authOrder \in Orders(DOMAIN serverConfig.AuthInfos),
          ctxOrder \in Orders(DOMAIN serverConfig.Contexts) :
         LET fresh == mergeKubeconfig(NewConfig, serverConfig, mergeIdenticalUsers,
                                      authOrder, ctxOrder).config.AuthInfos
         IN  \A k \in ManagedKeys(localConfig.AuthInfos) :
               k \in DOMAIN fresh /\ localConfig.AuthInfos[k] = fresh[k]
    /\ \A k \in ManagedKeys(localConfig.AuthInfos) :
         IF mergeIdenticalUsers
         THEN HashNamed(k)
         ELSE ~HashNamed(k) /\ unmanagedNameFunc(k) \in DOMAIN serverConfig.AuthInfos
    /\ \A x \in DOMAIN serverConfig.Contexts :
         x \in DOMAIN localConfig.Contexts =>
           localConfig.Contexts[x].AuthInfo
             = IF mergeIdenticalUsers
               THEN ManagedAuthName(serverConfig.Contexts[x].AuthInfo)
               ELSE managedNameFunc(serverConfig.Contexts[x].AuthInfo)

\* A pass without dedup followed a pass with dedup on the same two incoming users:
\* the file held a hash-named credential, referenced by a context, and holds none now.
C30_Witness ==
  /\ Switched /\ ~mergeIdenticalUsers
  /\ Cardinality(DOMAIN serverConfig.AuthInfos) = 2
  /\ \E k \in ManagedKeys(before.AuthInfos) :
       /\ HashNamed(k)
       /\ \E x \in DOMAIN before.Contexts : before.Contexts[x].AuthInfo = k
  /\ \A k \in ManagedKeys(localConfig.AuthInfos) : ~HashNamed(k)
  /\ \E x \in DOMAIN serverConfig.Contexts : x \in DOMAIN localConfig.Contexts

====
